---- MODULE Spec2Model ----
(***************************************************************************)
(* State-machine model of the anoo front end: the cursor-paginated lists   *)
(* (feed, my-posts), the comment list of the post-detail page, the image   *)
(* pipeline and the draft of the write page, the shared modal, the post    *)
(* API client, the client side AI image flow, and the Express server (AI   *)
(* proxy routes, image proxy).  Each program is a single-threaded event    *)
(* loop: an action is one synchronous run of a handler or of the           *)
(* continuation of an await.                                               *)
(***************************************************************************)
EXTENDS Integers, Sequences, FiniteSets, Bags, TLC

VARIABLES
  \* ---- feed / my-posts list page
  page,            \* the page controller that is loaded
  boot,            \* position of the DOMContentLoaded handler
  nextCursor,      \* nextCursor / myPostsNextCursor
  hasNext,         \* hasNext / myPostsHasNext
  isLoading,       \* isLoading / myPostsIsLoading
  isInitialLoad,   \* isInitialLoad / myPostsIsInitialLoad
  postsList,       \* ids of the post cards in #posts-list, in DOM order
  placeholder,     \* "none" | "empty" | "error": the non-card content shown
  scrollObserver,  \* TRUE while the IntersectionObserver is connected
  listRequests,    \* list requests in flight, each with its query
  issued,          \* number of list requests issued so far
  lastPage,        \* history: the last page response processed
  lastCallback,    \* history: the last IntersectionObserver callback
  \* ---- post-detail page, comments
  detailBoot,          \* position of the DOMContentLoaded handler / loadPost
  commentsNextCursor,
  commentsHasNext,
  commentsIsLoading,
  allComments,         \* merged comment ids
  renderedComments,    \* comment elements in #comments-list, in DOM order
  loadMoreShown,       \* the "load more" button exists and is displayed
  commentRequests,     \* getComments calls in flight
  deleteModal,         \* the delete modal of a comment is open
  commentMutations,    \* createComment / deleteComment calls in flight
  commentsIssued,      \* number of getComments calls issued so far
  lastMerge,           \* history: the last loadMoreComments merge
  \* ---- write page
  uploadedImages,      \* the entries of the uploadedImages array
  primaryImageIndex,   \* 0-based, as in the source
  draggedIndex,
  isDragging,
  pendingUploads,      \* files whose upload promise is in pendingUploads
  uploadStage,         \* per file: none | s3 | metadata | done | failed
  uploadBatch,         \* per file: the addImages call that uploads it
  previews,            \* files of the preview items in the container
  primaryShown,        \* index of the preview item drawn as primary
  submit,              \* position of handleSubmit, and what it awaits
  postRequest,         \* the POST /posts in flight
  nextFile,            \* number of the next file the user selects
  drops,               \* number of reordering drops so far
  lastEvent,           \* history: what the last step of the page did
  \* ---- the shared modal
  modalHidden,           \* #modal-overlay has the hidden attribute
  currentModalHandlers,
  modalListeners,        \* the listeners attached by openModal
  modalOpens,            \* number of openModal calls so far
  lastOpenOver,          \* history: the last openModal found a modal open
  lastClick,             \* history: the last event on the modal
  \* ---- write page: text fields and draft
  titleField,          \* value of #post-title
  contentField,        \* value of #post-content
  draftStorage,        \* localStorage item anoo_post_draft
  draftSaveTimer,      \* TRUE while the timer of scheduleDraftSave is pending
  hasUnsavedChanges,
  writeBoot,           \* how far the DOMContentLoaded handler has come
  modalPurpose,        \* which modal of the write page is open
  savedDraft,          \* the draft the recovery prompt holds
  visits,              \* number of loads of the write page
  savedText,           \* history: the fields last written to the draft
  lastDraftEvent,      \* history: what the last step did about the draft
  \* ---- services
  apiCall,             \* the call of the post API client and its outcome
  aiRoute,             \* the request the AI proxy routes handle
  imageProxy,          \* the request GET /api/image-proxy handles
  aiFlow,               \* the run of generateAndUploadAiImage
  detailLoad,   \* the load of the post-detail page and its like / delete requests
  clientCall,   \* a call of a post / image API client function, the wrapper's outcome and the function's
  toastView,   \* the toasts of showToast, their timers and the toast container
  configState,   \* configCache, configPromise, the request to /config and the callers of fetchConfig
  profileEdit,   \* the profile-edit form: inputs, check flags, checks in flight, the submit
  aiWrite   \* the image modes of the write page: tabs, manual and reference uploads, AI generations

listVars == <<page, boot, nextCursor, hasNext, isLoading, isInitialLoad,
              postsList, placeholder, scrollObserver, listRequests, issued,
              lastPage, lastCallback>>

commentVars == <<detailBoot, deleteModal, commentsNextCursor, commentsHasNext,
                 commentsIsLoading, allComments, renderedComments,
                 loadMoreShown, commentRequests, commentMutations,
                 commentsIssued, lastMerge>>

writeVars == <<uploadedImages, primaryImageIndex, draggedIndex, isDragging,
               pendingUploads, uploadStage, uploadBatch, previews,
               primaryShown, submit, postRequest, nextFile, drops,
               lastEvent>>

modalVars == <<modalHidden, currentModalHandlers, modalListeners, modalOpens,
               lastOpenOver, lastClick>>

draftVars == <<titleField, contentField, draftStorage, draftSaveTimer,
               hasUnsavedChanges, writeBoot, modalPurpose, savedDraft,
               visits, savedText, lastDraftEvent>>

clientVars == <<detailLoad, clientCall, toastView, configState, 
    profileEdit, aiWrite>>

serviceVars == <<apiCall, aiRoute, imageProxy, aiFlow, clientVars>>

\* the state of the page controllers
pageVars == <<listVars, commentVars, writeVars, modalVars, draftVars>>

vars == <<pageVars, serviceVars>>

\* what a service leaves alone
notApiVars == <<pageVars, aiRoute, imageProxy, aiFlow, clientVars>>
notAiRouteVars == <<pageVars, apiCall, imageProxy, aiFlow, clientVars>>
notImageProxyVars == <<pageVars, apiCall, aiRoute, aiFlow, clientVars>>
notAiFlowVars == <<pageVars, apiCall, aiRoute, imageProxy, clientVars>>
\* what a client program leaves alone
notDetailLoadVars == <<pageVars, apiCall, aiRoute, imageProxy, aiFlow, 
    clientCall, toastView, configState, profileEdit, aiWrite>>
notClientCallVars == <<pageVars, apiCall, aiRoute, imageProxy, aiFlow, 
    detailLoad, toastView, configState, profileEdit, aiWrite>>
notToastViewVars == <<pageVars, apiCall, aiRoute, imageProxy, aiFlow, 
    detailLoad, clientCall, configState, profileEdit, aiWrite>>
notConfigStateVars == <<pageVars, apiCall, aiRoute, imageProxy, aiFlow, 
    detailLoad, clientCall, toastView, profileEdit, aiWrite>>
notProfileEditVars == <<pageVars, apiCall, aiRoute, imageProxy, aiFlow, 
    detailLoad, clientCall, toastView, configState, aiWrite>>
notAiWriteVars == <<pageVars, apiCall, aiRoute, imageProxy, aiFlow, 
    detailLoad, clientCall, toastView, configState, profileEdit>>

\* what a page controller leaves alone: the state of the other pages
notListVars == <<commentVars, writeVars, modalVars, draftVars,
                  serviceVars>>
notCommentVars == <<listVars, writeVars, modalVars, draftVars,
                     serviceVars>>
notWriteVars == <<listVars, commentVars, modalVars, draftVars,
                   serviceVars>>
notModalVars == <<listVars, commentVars, writeVars, draftVars,
                   serviceVars>>

----------------------------------------------------------------------------
\* Generic helpers

Null == "null"            \* JS null
Undefined == "undefined"  \* JS undefined / absent field
None == "none"

Min(a, b) == IF a < b THEN a ELSE b
Max(a, b) == IF a > b THEN a ELSE b

Range(s) == {s[i] : i \in 1..Len(s)}

NoDuplicates(s) == \A i, j \in 1..Len(s) : i # j => s[i] # s[j]

IsPrefix(s, t) == Len(s) <= Len(t) /\ SubSeq(t, 1, Len(s)) = s

RemoveAt(s, i) == SubSeq(s, 1, i - 1) \o SubSeq(s, i + 1, Len(s))

\* sequences over S without repetition, of length at most n
DistinctSeqs(S, n) ==
  UNION {{s \in [1..k -> S] : NoDuplicates(s)} : k \in 0..n}

----------------------------------------------------------------------------
\* Bounds of the model

MaxLoads == 3      \* list requests issued on one page visit
MaxPageLen == 1    \* posts in one backend page
MaxEntries == 2    \* entries delivered by one IntersectionObserver callback

MaxCommentLoads == 3  \* getComments calls issued on one page visit
MaxCommentPage == 2   \* comments in one backend page

MaxFiles == 2   \* image files selected on one visit of the write page
MaxBatch == 2   \* image files in one selection
MaxDrops == 1   \* reordering drops on one visit of the write page

MaxOpens == 3   \* openModal calls made by page code
MaxVisits == 2  \* loads of the write page

MaxPad == 1     \* whitespace characters around a text given to the post API

PostIds == {"p1", "p2"}
Cursors == {"abc", "def"}
CommentIds == {1, 2, 3}
ListPages == {"feed", "profile"}
\* "modal" is any page while its modal is exercised
\* "post-api" is any page while it calls the post API client, "ai-client" a
\* page while it runs the AI image flow, "server" the Express server
Pages == ListPages \cup {"post-detail", "write", "modal", "post-api",
                         "ai-client", "server", "post-load",
                         "api-client", "toast", "config",
                         "profile-edit", "write-ai"}

----------------------------------------------------------------------------
\* Post API client: query of a list request

PAGE_SIZE == 10
MY_POSTS_PAGE_SIZE == 20
MaxLimit == 50

\* the limit without its upper bound
SafeLimitNoCap(limit, dflt) == Max(IF limit = 0 THEN dflt ELSE limit, 1)

\* Math.min(Math.max(Number(limit) || dflt, 1), 50), for a numeric limit
SafeLimit(limit, dflt) ==
  Min(Max(IF limit = 0 THEN dflt ELSE limit, 1), MaxLimit)

\* the cursor field of the query: absent unless cursor is a non-empty value
QueryCursor(cursor) ==
  IF cursor \in {Undefined, Null, ""} THEN Undefined ELSE cursor

\* getPosts({cursor, limit}) as called by loadPosts
getPosts(cursor, limit) ==
  [path |-> "/posts", sort |-> "desc",
   limit |-> SafeLimit(limit, 10), cursor |-> QueryCursor(cursor)]

\* getMyPosts({cursor, limit}) as called by loadMyPosts
getMyPosts(cursor, limit) ==
  [path |-> "/posts/me", sort |-> "desc",
   limit |-> SafeLimit(limit, 20), cursor |-> QueryCursor(cursor)]

\* what the backend may answer to a list request
PageResponses ==
  {[kind |-> "page", posts |-> ps, hasNext |-> h, nextCursor |-> c] :
     ps \in DistinctSeqs(PostIds, MaxPageLen), h \in BOOLEAN,
     c \in Cursors \cup {Null, ""}}
  \cup
  {[kind |-> "page", posts |-> ps, nextCursor |-> c] :
     ps \in DistinctSeqs(PostIds, MaxPageLen), c \in Cursors \cup {Null, ""}}

ListResponses ==
  PageResponses \cup {[kind |-> "nodata"], [kind |-> "error"]}

\* result?.posts ?? []
ResultPosts(r) == IF r.kind = "page" THEN r.posts ELSE <<>>

\* result?.hasNext ?? false
ResultHasNextNoDefault(r) ==
  IF r.kind = "page" /\ "hasNext" \in DOMAIN r THEN r.hasNext ELSE TRUE

ResultHasNext(r) ==
  IF r.kind = "page" /\ "hasNext" \in DOMAIN r THEN r.hasNext ELSE FALSE

\* result?.nextCursor ?? null
ResultNextCursorStale(r) == Null

ResultNextCursor(r) == IF r.kind = "page" THEN r.nextCursor ELSE Null

----------------------------------------------------------------------------
\* Feed and my-posts: loadPosts / loadMyPosts and the infinite scroll

ListState ==
  [nextCursor |-> nextCursor, hasNext |-> hasNext, isLoading |-> isLoading,
   isInitialLoad |-> isInitialLoad, postsList |-> postsList,
   placeholder |-> placeholder, listRequests |-> listRequests,
   issued |-> issued]

ListRequest(s) ==
  IF page = "feed" THEN getPosts(s.nextCursor, PAGE_SIZE)
  ELSE getMyPosts(s.nextCursor, MY_POSTS_PAGE_SIZE)

\* the synchronous part of loadPosts after its guard, up to the await
StartLoadNoFlag(s) ==
  [s EXCEPT !.postsList = IF s.isInitialLoad THEN <<>> ELSE @,
            !.placeholder = IF s.isInitialLoad /\ page = "feed"
                            THEN "none" ELSE @,
            !.listRequests = Append(@, ListRequest(s)),
            !.issued = @ + 1]

StartLoad(s) ==
  [s EXCEPT !.isLoading = TRUE,
            !.postsList = IF s.isInitialLoad THEN <<>> ELSE @,
            !.placeholder = IF s.isInitialLoad /\ page = "feed"
                            THEN "none" ELSE @,
            !.listRequests = Append(@, ListRequest(s)),
            !.issued = @ + 1]

\* loadPosts() / loadMyPosts() up to the await
loadPosts(s) == IF s.isLoading \/ ~s.hasNext THEN s ELSE StartLoad(s)

\* the IntersectionObserver callback: entries.forEach(...)
RECURSIVE ObserverCallback(_, _)
ObserverCallback(s, entries) ==
  IF entries = <<>> THEN s
  ELSE ObserverCallback(
         IF Head(entries) /\ ~s.isLoading /\ s.hasNext
         THEN loadPosts(s) ELSE s,
         Tail(entries))

\* the continuation of loadPosts after the await resolved with r
\* (try body and finally)
LoadResolved(s, r) ==
  LET posts == ResultPosts(r)
      t == [s EXCEPT !.hasNext = ResultHasNext(r),
                     !.nextCursor = ResultNextCursor(r)]
  IN IF s.isInitialLoad /\ posts = <<>>
     THEN [t EXCEPT !.postsList = <<>>, !.placeholder = "empty",
                    !.isLoading = FALSE, !.isInitialLoad = FALSE]
     ELSE [t EXCEPT !.postsList = @ \o posts,
                    !.placeholder = IF page = "feed" THEN @ ELSE "none",
                    !.isInitialLoad = FALSE, !.isLoading = FALSE]

\* a catch block that shows the error state whatever page failed
LoadRejectedClears(s) ==
  [s EXCEPT !.postsList = <<>>,
            !.placeholder = IF page = "feed" THEN "error" ELSE "empty",
            !.isLoading = FALSE]

\* the continuation of loadPosts after the await rejected (catch, finally)
LoadRejected(s) ==
  IF s.isInitialLoad
  THEN [s EXCEPT !.postsList = <<>>,
                 !.placeholder = IF page = "feed" THEN "error" ELSE "empty",
                 !.isLoading = FALSE]
  ELSE [s EXCEPT !.isLoading = FALSE]

SetListState(s) ==
  /\ nextCursor' = s.nextCursor
  /\ hasNext' = s.hasNext
  /\ isLoading' = s.isLoading
  /\ isInitialLoad' = s.isInitialLoad
  /\ postsList' = s.postsList
  /\ placeholder' = s.placeholder
  /\ listRequests' = s.listRequests
  /\ issued' = s.issued

\* a response that tells the client there is no further page
ReportsEnd(r) ==
  r.kind = "nodata" \/ "hasNext" \notin DOMAIN r \/ ~r.hasNext

NoPage == [resp |-> [kind |-> "none"], seq |-> 0, ended |-> FALSE]

NoCallback == [entries |-> <<>>, started |-> FALSE, afterSeq |-> 0]

InitList ==
  /\ boot = "layout"
  /\ nextCursor = Null
  /\ hasNext = TRUE
  /\ isLoading = FALSE
  /\ isInitialLoad = TRUE
  /\ postsList = <<>>
  /\ placeholder = "none"
  /\ scrollObserver = FALSE
  /\ listRequests = <<>>
  /\ issued = 0
  /\ lastPage = NoPage
  /\ lastCallback = NoCallback

\* DOMContentLoaded: the layout (and, on the profile page, the profile) is
\* rendered, then the first loadPosts() is called and awaited
FirstLoad ==
  /\ page \in ListPages
  /\ UNCHANGED notListVars
  /\ boot = "layout"
  /\ boot' = "firstLoad"
  /\ SetListState(loadPosts(ListState))
  /\ UNCHANGED <<page, scrollObserver, lastPage, lastCallback>>

\* a list request completes; when it is the first load, the awaiting
\* DOMContentLoaded handler goes on to setupInfiniteScroll()
ListResponse ==
  /\ page \in ListPages
  /\ UNCHANGED notListVars
  /\ \E i \in 1..Len(listRequests), r \in ListResponses :
    LET s == [ListState EXCEPT !.listRequests = RemoveAt(@, i)]
    IN /\ SetListState(IF r.kind = "error" THEN LoadRejected(s)
                       ELSE LoadResolved(s, r))
       /\ lastPage' = IF r.kind = "error" THEN lastPage
                      ELSE [resp |-> r, seq |-> lastPage.seq + 1,
                            ended |-> lastPage.ended \/ ReportsEnd(r)]
       /\ IF boot = "firstLoad"
          THEN boot' = "ready" /\ scrollObserver' = TRUE
          ELSE UNCHANGED <<boot, scrollObserver>>
       /\ UNCHANGED <<page, lastCallback>>

\* the sentinel's IntersectionObserver delivers a batch of entries
Intersect ==
  /\ page \in ListPages
  /\ UNCHANGED notListVars
  /\ scrollObserver
  /\ issued < MaxLoads
  /\ \E n \in 1..MaxEntries : \E entries \in [1..n -> BOOLEAN] :
       LET s == ObserverCallback(ListState, entries)
       IN /\ SetListState(s)
          /\ lastCallback' = [entries |-> entries,
                              started |-> s.issued > issued,
                              afterSeq |-> lastPage.seq]
  /\ UNCHANGED <<page, boot, scrollObserver, lastPage>>

\* pagehide: cleanupInfiniteScroll()
PageHide ==
  /\ page \in ListPages
  /\ UNCHANGED notListVars
  /\ scrollObserver
  /\ scrollObserver' = FALSE
  /\ UNCHANGED <<page, boot, nextCursor, hasNext, isLoading, isInitialLoad,
                 postsList, placeholder, listRequests, issued, lastPage,
                 lastCallback>>

NextList == FirstLoad \/ ListResponse \/ Intersect \/ PageHide

----------------------------------------------------------------------------
\* Post-detail page: loadComments / loadMoreComments

COMMENTS_PAGE_SIZE == 20

\* what the backend may answer to a getComments call
CommentResponses ==
  {[kind |-> "page", comments |-> cs, hasNext |-> h, nextCursor |-> c] :
     cs \in DistinctSeqs(CommentIds, MaxCommentPage), h \in BOOLEAN,
     c \in {Null, "abc"}}
  \cup
  {[kind |-> "page", comments |-> cs, nextCursor |-> c] :
     cs \in DistinctSeqs(CommentIds, MaxCommentPage), c \in {Null, "abc"}}
  \cup {[kind |-> "nodata"], [kind |-> "error"]}

\* result?.comments ?? []
ResultComments(r) == IF r.kind = "page" THEN r.comments ELSE <<>>

CommentState ==
  [commentsNextCursor |-> commentsNextCursor,
   commentsHasNext |-> commentsHasNext,
   commentsIsLoading |-> commentsIsLoading,
   allComments |-> allComments,
   renderedComments |-> renderedComments,
   loadMoreShown |-> loadMoreShown,
   commentRequests |-> commentRequests,
   commentsIssued |-> commentsIssued,
   lastMerge |-> lastMerge]

SetCommentState(s) ==
  /\ commentsNextCursor' = s.commentsNextCursor
  /\ commentsHasNext' = s.commentsHasNext
  /\ commentsIsLoading' = s.commentsIsLoading
  /\ allComments' = s.allComments
  /\ renderedComments' = s.renderedComments
  /\ loadMoreShown' = s.loadMoreShown
  /\ commentRequests' = s.commentRequests
  /\ commentsIssued' = s.commentsIssued
  /\ lastMerge' = s.lastMerge

\* renderComments(), with updateLoadMoreButton()
renderComments(s) ==
  IF s.allComments = <<>>
  THEN [s EXCEPT !.renderedComments = <<>>, !.loadMoreShown = FALSE]
  ELSE [s EXCEPT !.renderedComments =
                    SortSeq(s.allComments, LAMBDA a, b : a < b),
                 !.loadMoreShown = s.commentsHasNext]

resetCommentsState(s) ==
  [s EXCEPT !.commentsNextCursor = Null, !.commentsHasNext = TRUE,
            !.commentsIsLoading = FALSE, !.allComments = <<>>]

\* loadComments() up to the await
loadComments(s) ==
  LET t == resetCommentsState(s)
  IN [t EXCEPT !.commentsIsLoading = TRUE,
               !.commentRequests =
                  Append(@, [fn |-> "loadComments", cursor |-> Undefined,
                             limit |-> COMMENTS_PAGE_SIZE, sort |-> "desc"]),
               !.commentsIssued = @ + 1]

\* loadComments() after the await: try body or catch, then finally
loadCommentsDone(s, r) ==
  LET t == IF r.kind = "error"
           THEN renderComments([s EXCEPT !.allComments = <<>>])
           ELSE renderComments(
                  [s EXCEPT !.commentsHasNext = ResultHasNext(r),
                            !.commentsNextCursor = ResultNextCursor(r),
                            !.allComments = ResultComments(r)])
  IN [t EXCEPT !.commentsIsLoading = FALSE]

\* loadMoreComments() up to the await
loadMoreComments(s) ==
  IF s.commentsIsLoading \/ ~s.commentsHasNext THEN s
  ELSE [s EXCEPT !.commentsIsLoading = TRUE,
                 !.commentRequests =
                    Append(@, [fn |-> "loadMoreComments",
                               cursor |-> s.commentsNextCursor,
                               limit |-> COMMENTS_PAGE_SIZE, sort |-> "desc"]),
                 !.commentsIssued = @ + 1]

\* the merge of a further page into allComments
MergeCommentsNoFilter(all, comments) == all \o comments

MergeComments(all, comments) ==
  all \o SelectSeq(comments, LAMBDA c : c \notin Range(all))

\* loadMoreComments() after the await: try body or catch, then finally
loadMoreCommentsDone(s, r) ==
  LET t == IF r.kind = "error" THEN s
           ELSE renderComments(
                  [s EXCEPT !.commentsHasNext = ResultHasNext(r),
                            !.commentsNextCursor = ResultNextCursor(r),
                            !.allComments =
                               MergeComments(@, ResultComments(r)),
                            !.lastMerge =
                               [before |-> s.allComments,
                                page |-> ResultComments(r)]])
  IN [t EXCEPT !.commentsIsLoading = FALSE]

NoMerge == [before |-> <<>>, page |-> <<>>]

InitComments ==
  /\ detailBoot = "post"
  /\ commentsNextCursor = Null
  /\ commentsHasNext = TRUE
  /\ commentsIsLoading = FALSE
  /\ allComments = <<>>
  /\ renderedComments = <<>>
  /\ loadMoreShown = FALSE
  /\ commentRequests = <<>>
  /\ commentMutations = 0
  /\ commentsIssued = 0
  /\ lastMerge = NoMerge
  /\ deleteModal = FALSE

\* loadPost(): getPost resolved, the post is rendered and loadComments()
\* is awaited; a rejected getPost renders the 404 content
PostLoaded ==
  /\ page = "post-detail"
  /\ UNCHANGED notCommentVars
  /\ detailBoot = "post"
  /\ \E ok \in BOOLEAN :
       IF ok
       THEN /\ detailBoot' = "comments"
            /\ SetCommentState(loadComments(CommentState))
       ELSE /\ detailBoot' = "404"
            /\ SetCommentState(CommentState)
  /\ UNCHANGED <<commentMutations, deleteModal>>

\* a getComments call completes; after the first one the DOMContentLoaded
\* handler registers the page's event listeners
CommentResponse ==
  /\ page = "post-detail"
  /\ UNCHANGED notCommentVars
  /\ \E i \in 1..Len(commentRequests), r \in CommentResponses :
       LET s == [CommentState EXCEPT !.commentRequests = RemoveAt(@, i)]
       IN SetCommentState(
            IF commentRequests[i].fn = "loadComments"
            THEN loadCommentsDone(s, r) ELSE loadMoreCommentsDone(s, r))
  /\ detailBoot' = IF detailBoot = "comments" THEN "ready" ELSE detailBoot
  /\ UNCHANGED <<commentMutations, deleteModal>>

\* a click on the "load more" button
LoadMoreClick ==
  /\ page = "post-detail"
  /\ UNCHANGED notCommentVars
  /\ loadMoreShown
  /\ commentsIssued + commentMutations < MaxCommentLoads
  /\ SetCommentState(loadMoreComments(CommentState))
  /\ UNCHANGED <<detailBoot, commentMutations, deleteModal>>

\* handleSubmitComment() with a non-empty text, up to the await of
\* createComment
SubmitComment ==
  /\ page = "post-detail"
  /\ UNCHANGED notCommentVars
  /\ detailBoot = "ready"
  /\ commentsIssued + commentMutations < MaxCommentLoads
  /\ commentMutations' = commentMutations + 1
  /\ SetCommentState(CommentState)
  /\ UNCHANGED <<detailBoot, deleteModal>>

\* handleDeleteComment: the delete button of a rendered comment is clicked
\* and the modal opens
DeleteCommentClick ==
  /\ page = "post-detail"
  /\ UNCHANGED notCommentVars
  /\ renderedComments # <<>>
  /\ ~deleteModal
  /\ deleteModal' = TRUE
  /\ SetCommentState(CommentState)
  /\ UNCHANGED <<detailBoot, commentMutations>>

\* the delete modal is confirmed, whatever the list shows by then:
\* deleteComment is awaited
DeleteCommentConfirmed ==
  /\ page = "post-detail"
  /\ UNCHANGED notCommentVars
  /\ deleteModal
  /\ commentsIssued + commentMutations < MaxCommentLoads
  /\ deleteModal' = FALSE
  /\ commentMutations' = commentMutations + 1
  /\ SetCommentState(CommentState)
  /\ UNCHANGED detailBoot

\* the delete modal is dismissed
DeleteCommentCancelled ==
  /\ page = "post-detail"
  /\ UNCHANGED notCommentVars
  /\ deleteModal
  /\ deleteModal' = FALSE
  /\ SetCommentState(CommentState)
  /\ UNCHANGED <<detailBoot, commentMutations>>

\* createComment / deleteComment completes: on success loadComments() (and
\* refreshPost()) is called, on failure a toast is shown
CommentMutationDone ==
  /\ page = "post-detail"
  /\ UNCHANGED notCommentVars
  /\ commentMutations > 0
  /\ commentMutations' = commentMutations - 1
  /\ \E ok \in BOOLEAN :
       SetCommentState(IF ok THEN loadComments(CommentState)
                       ELSE CommentState)
  /\ UNCHANGED <<detailBoot, deleteModal>>

NextComments ==
  \/ PostLoaded \/ CommentResponse \/ LoadMoreClick \/ SubmitComment
  \/ DeleteCommentClick \/ DeleteCommentConfirmed \/ DeleteCommentCancelled
  \/ CommentMutationDone

----------------------------------------------------------------------------
\* Write page: the title and content fields and the draft in localStorage

\* texts are sequences of characters; the ones a user types here
DraftTexts ==
  {<<>>, <<"h", "i">>, <<" ">>, <<"\\", "\"">>}

\* String.prototype.trim()
RECURSIVE TrimStart(_)
TrimStart(s) ==
  IF s # <<>> /\ Head(s) = " " THEN TrimStart(Tail(s)) ELSE s

RECURSIVE TrimEnd(_)
TrimEnd(s) ==
  IF s # <<>> /\ s[Len(s)] = " " THEN TrimEnd(SubSeq(s, 1, Len(s) - 1))
  ELSE s

Trim(s) == TrimEnd(TrimStart(s))

TITLE_MAX == 26
CONTENT_MAX == 10000

\* validateTitle() / validateContent() of the page, on the field values
validateTitleField(title) ==
  Len(Trim(title)) >= 2 /\ Len(Trim(title)) <= TITLE_MAX

validateContentField(content) ==
  Len(Trim(content)) >= 2 /\ Len(Trim(content)) <= CONTENT_MAX

\* JSON.stringify of a string: quoted, with quote and backslash escaped
RECURSIVE JsonEscape(_)
JsonEscape(s) ==
  IF s = <<>> THEN <<>>
  ELSE (IF Head(s) \in {"\"", "\\"} THEN <<"\\", Head(s)>> ELSE <<Head(s)>>)
       \o JsonEscape(Tail(s))

JsonStringRaw(s) == <<"\"">> \o s \o <<"\"">>

JsonString(s) == <<"\"">> \o JsonEscape(s) \o <<"\"">>

\* new Date().toISOString(), one clock reading
SavedAt == <<"T">>

\* no draft: what loadDraft() returns as null
NoDraft == [title |-> <<>>, content |-> <<>>, savedAt |-> <<>>]

\* localStorage.getItem(DRAFT_STORAGE_KEY) === null
NoItem == <<>>

\* JSON.stringify(draft)
JsonStringify(draft) ==
  <<"{">> \o JsonString(<<"t", "i", "t", "l", "e">>) \o <<":">>
          \o JsonString(draft.title) \o <<",">>
          \o JsonString(<<"c", "o", "n", "t", "e", "n", "t">>) \o <<":">>
          \o JsonString(draft.content) \o <<",">>
          \o JsonString(<<"s", "a", "v", "e", "d", "A", "t">>) \o <<":">>
          \o JsonString(draft.savedAt) \o <<"}">>

\* JSON.parse, reading a string literal that opens at text[i]: the value
\* and the index after the closing quote, or a syntax error
RECURSIVE ReadChars(_, _, _)
ReadChars(text, i, acc) ==
  IF i > Len(text) THEN [ok |-> FALSE, value |-> <<>>, next |-> i]
  ELSE IF text[i] = "\"" THEN [ok |-> TRUE, value |-> acc, next |-> i + 1]
  ELSE IF text[i] = "\\"
  THEN IF i + 1 <= Len(text) /\ text[i + 1] \in {"\"", "\\"}
       THEN ReadChars(text, i + 2, Append(acc, text[i + 1]))
       ELSE [ok |-> FALSE, value |-> <<>>, next |-> i]
  ELSE ReadChars(text, i + 1, Append(acc, text[i]))

ReadString(text, i) ==
  IF i <= Len(text) /\ text[i] = "\"" THEN ReadChars(text, i + 1, <<>>)
  ELSE [ok |-> FALSE, value |-> <<>>, next |-> i]

\* JSON.parse of an object of string members, from the member at text[i]
\* on: the members read, or a syntax error
RECURSIVE ReadMembers(_, _, _)
ReadMembers(text, i, acc) ==
  LET key == ReadString(text, i)
      val == ReadString(text, key.next + 1)
      members == Append(acc, <<key.value, val.value>>)
  IN IF ~key.ok \/ key.next > Len(text) \/ text[key.next] # ":" \/ ~val.ok
        \/ val.next > Len(text)
     THEN [ok |-> FALSE, members |-> <<>>]
     ELSE IF text[val.next] = "}"
     THEN [ok |-> val.next = Len(text), members |-> members]
     ELSE IF text[val.next] = ","
     THEN ReadMembers(text, val.next + 1, members)
     ELSE [ok |-> FALSE, members |-> <<>>]

JsonParse(text) ==
  IF text # <<>> /\ Head(text) = "{" THEN ReadMembers(text, 2, <<>>)
  ELSE [ok |-> FALSE, members |-> <<>>]

\* obj[key] of a parsed object: the last member of that name, or nothing
Member(members, key) ==
  LET hits == {i \in 1..Len(members) : members[i][1] = key}
  IN IF hits = {} THEN <<>>
     ELSE members[CHOOSE i \in hits : \A j \in hits : j <= i][2]

\* saveDraft(): the item in localStorage afterwards
saveDraft(title, content) ==
  IF title = <<>> /\ content = <<>> THEN NoItem
  ELSE JsonStringify([title |-> title, content |-> content,
                      savedAt |-> SavedAt])

\* loadDraft(): the draft, and the item left in localStorage
loadDraft(item) ==
  IF item = NoItem THEN [draft |-> NoDraft, item |-> item]
  ELSE LET parsed == JsonParse(item)
       IN IF parsed.ok
          THEN [draft |->
                  [title |-> Member(parsed.members, <<"t", "i", "t", "l", "e">>),
                   content |-> Member(parsed.members,
                                      <<"c", "o", "n", "t", "e", "n", "t">>),
                   savedAt |-> Member(parsed.members,
                                      <<"s", "a", "v", "e", "d", "A", "t">>)],
                item |-> item]
          ELSE [draft |-> NoDraft, item |-> NoItem]

\* restoreDraft(draft): the fields afterwards
restoreDraft(draft, title, content) ==
  [title |-> IF draft.title # <<>> THEN draft.title ELSE title,
   content |-> IF draft.content # <<>> THEN draft.content ELSE content]

\* history of a step of the draft: "visit" when the page was loaded (saved
\* is what the last saveDraft or clearDraft left in localStorage, prompted
\* whether the recovery prompt was opened), "restore" when the prompt was
\* accepted (fields is what the form fields held before restoreDraft),
\* "decline" when it was dismissed, "submitted" when a post was created
NoDraftEvent == [kind |-> "none", saved |-> [title |-> <<>>, content |-> <<>>],
                 prompted |-> FALSE,
                 fields |-> [title |-> <<>>, content |-> <<>>]]

InitDraft ==
  /\ titleField = <<>>
  /\ contentField = <<>>
  /\ draftStorage = NoItem
  /\ draftSaveTimer = FALSE
  /\ hasUnsavedChanges = FALSE
  /\ writeBoot = "ready"
  /\ modalPurpose = "none"
  /\ savedDraft = NoDraft
  /\ visits = 1
  /\ savedText = [title |-> <<>>, content |-> <<>>]
  /\ lastDraftEvent = NoDraftEvent

----------------------------------------------------------------------------
\* Write page, direct-upload mode: image pipeline, reordering and submit

MAX_IMAGES_MANUAL == 4

NoIndex == -1    \* draggedIndex = null; also indexOf(...) = -1
NoImageId == 0   \* imageId = null

\* the image files, numbered in the order of their selection
Files == 1..Max(MaxFiles, MAX_IMAGES_MANUAL)

\* the imageId the backend registers for a file
ImageIdOf(f) == 10 + f

\* an array slot holding undefined; uploadedAt is "fresh" or "old" for a
\* Date less or more than IMAGE_EXPIRY_MS before now, and at orders the
\* Dates of the entries (0 without a Date)
UndefImage ==
  [file |-> 0, isUploading |-> FALSE, imageId |-> NoImageId,
   uploadedAt |-> "undefined", at |-> 0]

\* tempImage as created by addImages (previewUrl is the file's blob URL)
TempImage(f) ==
  [file |-> f, isUploading |-> TRUE, imageId |-> NoImageId,
   uploadedAt |-> "null", at |-> 0]

FilesOf(imgs) == {imgs[i].file : i \in 1..Len(imgs)} \ {0}

HasUndefined(imgs) == \E i \in 1..Len(imgs) : imgs[i] = UndefImage

\* uploadedImages.indexOf(tempImage), 0-based
IndexOf(imgs, f) ==
  IF \E i \in 1..Len(imgs) : imgs[i].file = f
  THEN (CHOOSE i \in 1..Len(imgs) : imgs[i].file = f) - 1
  ELSE NoIndex

\* array.splice(start, 1) for start >= 0
SpliceRemove(imgs, start) ==
  IF start < Len(imgs) THEN RemoveAt(imgs, start + 1) ELSE imgs

\* array.splice(start, 0, item) for start >= 0
SpliceInsert(imgs, start, item) ==
  LET at == Min(start, Len(imgs))
  IN SubSeq(imgs, 1, at) \o <<item>> \o SubSeq(imgs, at + 1, Len(imgs))

\* renderImagePreviews(force): the preview items in the container; the
\* forEach stops with a TypeError at an undefined slot
Rendered(imgs) ==
  LET stop == IF HasUndefined(imgs)
              THEN (CHOOSE i \in 1..Len(imgs) :
                      /\ imgs[i] = UndefImage
                      /\ \A j \in 1..(i - 1) : imgs[j] # UndefImage) - 1
              ELSE Len(imgs)
  IN [i \in 1..stop |-> imgs[i].file]

renderImagePreviews(imgs, dom, dragging, force) ==
  IF dragging /\ ~force THEN dom ELSE Rendered(imgs)

\* renderImagePreviews: the item drawn as primary (badge, no "primary"
\* button) is the one at effectivePrimaryIndex, if the loop got that far
PrimaryDrawn(imgs, p) ==
  LET effectivePrimaryIndex == IF p >= 0 /\ p < Len(imgs) THEN p ELSE 0
  IN IF effectivePrimaryIndex < Len(Rendered(imgs))
     THEN effectivePrimaryIndex ELSE NoIndex

renderPrimary(imgs, p, shown, dragging, force) ==
  IF dragging /\ ~force THEN shown ELSE PrimaryDrawn(imgs, p)

\* removeImage(index): the new primaryImageIndex
PrimaryAfterRemove(len, index, p) ==
  IF len = 0 THEN 0
  ELSE IF index < p THEN p - 1
  ELSE IF index = p THEN 0
  ELSE p

\* the failure branch of an upload: the entry of tempImage is removed
RemoveFailedNoCheck(imgs, f) ==
  IF IndexOf(imgs, f) = NoIndex
  THEN SubSeq(imgs, 1, Len(imgs) - 1)
  ELSE SpliceRemove(imgs, IndexOf(imgs, f))

RemoveFailed(imgs, f) ==
  IF IndexOf(imgs, f) > NoIndex
  THEN SpliceRemove(imgs, IndexOf(imgs, f))
  ELSE imgs

\* the latest Date among the entries
LastUploadedAt(imgs) ==
  IF imgs = <<>> THEN 0
  ELSE CHOOSE a \in {imgs[i].at : i \in 1..Len(imgs)} :
         \A i \in 1..Len(imgs) : imgs[i].at <= a

\* the success branch of an upload: tempImage is updated in place, its
\* uploadedAt is new Date(), later than the Date of every other entry
MarkUploaded(imgs, f) ==
  [i \in 1..Len(imgs) |->
     IF imgs[i].file = f
     THEN [imgs[i] EXCEPT !.imageId = ImageIdOf(f), !.uploadedAt = "fresh",
                          !.at = LastUploadedAt(imgs) + 1,
                          !.isUploading = FALSE]
     ELSE imgs[i]]

\* the array after the files 1..k were selected one by one and uploaded
RECURSIVE MarkAllUploaded(_)
MarkAllUploaded(k) ==
  IF k = 0 THEN <<>>
  ELSE MarkUploaded(Append(MarkAllUploaded(k - 1), TempImage(k)), k)

\* a drop handler that leaves primaryImageIndex alone
PrimaryAfterDropKeeps(d, t, p) == p

\* drop handler: the new primaryImageIndex
PrimaryAfterDrop(d, t, p) ==
  IF p = d THEN t
  ELSE IF d < p /\ t >= p THEN p - 1
  ELSE IF d > p /\ t <= p THEN p + 1
  ELSE p

\* drop handler: the reordered array
ReorderSwap(imgs, d, t) ==
  IF d < Len(imgs) /\ t < Len(imgs)
  THEN [imgs EXCEPT ![d + 1] = imgs[t + 1], ![t + 1] = imgs[d + 1]]
  ELSE imgs

Reorder(imgs, d, t) ==
  LET draggedItem == IF d < Len(imgs) THEN imgs[d + 1] ELSE UndefImage
  IN SpliceInsert(SpliceRemove(imgs, d), t, draggedItem)

\* checkExpiredImages(): the expired entries
ExpiredImages(imgs) == SelectSeq(imgs, LAMBDA img : img.uploadedAt = "old")

\* buildCreatePostRequest() in direct-upload mode
buildCreatePostRequest(imgs, p) ==
  LET completedImages ==
        SelectSeq(imgs, LAMBDA img : ~img.isUploading
                                      /\ img.imageId # NoImageId)
      imageIds == [i \in 1..Len(completedImages) |->
                     completedImages[i].imageId]
      finalPrimaryId ==
        IF Len(imageIds) > 0
        THEN IF p < Len(imgs) /\ imgs[p + 1] # UndefImage
                /\ imgs[p + 1].imageId # NoImageId
             THEN imgs[p + 1].imageId
             ELSE imageIds[1]
        ELSE NoImageId
  IN [imageMode |-> "manual", imageIds |-> imageIds,
      primaryImageId |-> finalPrimaryId]

\* createPost(postData): the body of POST /posts (primaryImageId absent
\* is NoImageId)
createPost(postData) ==
  [imageIds |-> postData.imageIds,
   primaryImageId |->
     IF postData.primaryImageId \in Range(postData.imageIds)
     THEN postData.primaryImageId ELSE NoImageId]

NoPostRequest ==
  [sent |-> FALSE, imageIds |-> <<>>, primaryImageId |-> NoImageId,
   uploadingAtCall |-> {}, shownAtCall |-> {}]

\* history of a step: "failure" when the failure branch of the upload of
\* file ran, "drop" when a drop reordered the array (dragged index d, target
\* index t); before and after are the array around that branch, others the
\* files whose upload was in flight
NoEvent == [kind |-> "none", file |-> 0, d |-> 0, t |-> 0, before |-> <<>>,
            after |-> <<>>, others |-> {}]

Unsettled(stage) == {f \in Files : stage[f] \in {"s3", "metadata"}}

\* handleSubmit from checkExpiredImages() on: the synchronous tail of a
\* submit without pending uploads, or the continuation of
\* await Promise.allSettled(pendingUploads)
SubmitProceed(imgs, dom, shown, stage) ==
  IF HasUndefined(imgs)
  THEN [uploadedImages |-> imgs, previews |-> dom, primaryShown |-> shown,
        state |-> "crashed", postRequest |-> NoPostRequest]
  ELSE IF Len(ExpiredImages(imgs)) > 0
  THEN LET kept == SelectSeq(imgs, LAMBDA img : img.uploadedAt # "old")
       IN [uploadedImages |-> kept,
           previews |-> renderImagePreviews(kept, dom, isDragging, FALSE),
           primaryShown |-> renderPrimary(kept, primaryImageIndex, shown,
                                          isDragging, FALSE),
           state |-> "idle", postRequest |-> NoPostRequest]
  ELSE IF ~(validateTitleField(titleField)
            /\ validateContentField(contentField))
  THEN \* createPost checks the title and the content the request was
       \* built from and throws before any request: toast, button enabled
       [uploadedImages |-> imgs, previews |-> dom, primaryShown |-> shown,
        state |-> "idle", postRequest |-> NoPostRequest]
  ELSE LET body == createPost(buildCreatePostRequest(imgs, primaryImageIndex))
       IN [uploadedImages |-> imgs, previews |-> dom,
           primaryShown |-> shown, state |-> "creating",
           postRequest |->
             [sent |-> TRUE, imageIds |-> body.imageIds,
              primaryImageId |-> body.primaryImageId,
              uploadingAtCall |-> Unsettled(stage),
              shownAtCall |-> FilesOf(imgs)]]

\* handleSubmit has not run (state), no navigation was started (nav)
IdleSubmitState == [state |-> "idle", awaiting |-> {}, nav |-> "none"]

InitWrite ==
  /\ uploadedImages = <<>>
  /\ primaryImageIndex = 0
  /\ draggedIndex = NoIndex
  /\ isDragging = FALSE
  /\ pendingUploads = {}
  /\ uploadStage = [f \in Files |-> "none"]
  /\ uploadBatch = [f \in Files |-> 0]
  /\ previews = <<>>
  /\ primaryShown = NoIndex
  /\ submit = IdleSubmitState
  /\ postRequest = NoPostRequest
  /\ nextFile = 1
  /\ drops = 0
  /\ lastEvent = NoEvent

\* the page's document is loaded: its promise continuations and timers run
\* until a navigation it started has unloaded it
WriteLoaded == page = "write" /\ submit.nav # "left"

\* the DOMContentLoaded handler has attached the page's listeners
WriteLive == WriteLoaded /\ writeBoot = "ready"

\* handleImageSelect -> addImages(files), up to the first await of every
\* upload; valid[i] tells whether the i-th file passes validateImageFile
AddImages ==
  /\ WriteLive /\ ~isDragging
  /\ UNCHANGED notWriteVars
  /\ \E n \in 1..MaxBatch : \E valid \in [1..n -> BOOLEAN] :
       LET remainingSlots == MAX_IMAGES_MANUAL - Len(uploadedImages)
           taken == {i \in 1..Min(n, Max(remainingSlots, 0)) : valid[i]}
           count == Cardinality(taken)
           new == nextFile..(nextFile + count - 1)
           imgs == uploadedImages \o
                     [i \in 1..count |-> TempImage(nextFile + i - 1)]
           \* renderImagePreviews() throws at an undefined slot and
           \* addImages ends before any upload is started
           started == IF remainingSlots <= 0 \/ HasUndefined(imgs) THEN {}
                      ELSE new
       IN /\ nextFile + n - 1 <= MaxFiles
          /\ nextFile' = nextFile + count
          /\ uploadedImages' = IF remainingSlots <= 0 THEN uploadedImages
                               ELSE imgs
          /\ previews' = IF remainingSlots <= 0 THEN previews
                         ELSE renderImagePreviews(imgs, previews,
                                                  isDragging, FALSE)
          /\ primaryShown' = IF remainingSlots <= 0 THEN primaryShown
                             ELSE renderPrimary(imgs, primaryImageIndex,
                                                primaryShown, isDragging,
                                                FALSE)
          /\ uploadStage' = [f \in Files |->
                               IF f \in started THEN "s3"
                               ELSE uploadStage[f]]
          /\ uploadBatch' = [f \in Files |->
                               IF f \in started THEN nextFile
                               ELSE uploadBatch[f]]
          /\ pendingUploads' = pendingUploads \cup started
  /\ UNCHANGED <<primaryImageIndex, draggedIndex, isDragging, submit,
                 postRequest, drops>>
  /\ lastEvent' = NoEvent

\* what follows the settling of upload f in the same run of the microtask
\* queue: addImages drops its settled batch from pendingUploads, and a
\* handleSubmit awaiting the uploads goes on
AfterSettle(f, imgs, dom, shown, stage) ==
  LET batchFiles == {g \in Files : uploadBatch[g] = uploadBatch[f]}
      resumes == /\ submit.state = "waiting"
                 /\ f \in submit.awaiting
                 /\ submit.awaiting \cap Unsettled(stage) = {}
      go == SubmitProceed(imgs, dom, shown, stage)
  IN /\ uploadStage' = stage
     /\ pendingUploads' = IF batchFiles \cap Unsettled(stage) = {}
                          THEN pendingUploads \ batchFiles
                          ELSE pendingUploads
     /\ IF resumes
        THEN /\ uploadedImages' = go.uploadedImages
             /\ previews' = go.previews
             /\ primaryShown' = go.primaryShown
             /\ submit' = [submit EXCEPT !.state = go.state,
                                         !.awaiting = {}]
             /\ postRequest' = go.postRequest
        ELSE /\ uploadedImages' = imgs
             /\ previews' = dom
             /\ primaryShown' = shown
             /\ UNCHANGED <<submit, postRequest>>

\* the catch branch of upload f, entered with the array as imgs0
UploadCatch(f, imgs0, outcome) ==
  LET imgs == RemoveFailed(imgs0, f)
      stage == [uploadStage EXCEPT ![f] = outcome]
  IN /\ AfterSettle(f, imgs,
                    renderImagePreviews(imgs, previews, isDragging, FALSE),
                    renderPrimary(imgs, primaryImageIndex, primaryShown,
                                  isDragging, FALSE),
                    stage)
     /\ lastEvent' = [NoEvent EXCEPT !.kind = "failure", !.file = f,
                                     !.before = imgs0, !.after = imgs,
                                     !.others = Unsettled(stage)]

UploadFailed(f) == UploadCatch(f, uploadedImages, "failed")

\* uploadImageToS3 of one file completes
S3Done ==
  /\ WriteLoaded
  /\ UNCHANGED notWriteVars
  /\ \E f \in Files, ok \in BOOLEAN :
       /\ uploadStage[f] = "s3"
       /\ IF ok
          THEN /\ uploadStage' = [uploadStage EXCEPT ![f] = "metadata"]
               /\ lastEvent' = NoEvent
               /\ UNCHANGED <<uploadedImages, previews, primaryShown,
                              pendingUploads, submit, postRequest>>
          ELSE UploadFailed(f)
  /\ UNCHANGED <<primaryImageIndex, draggedIndex, isDragging, uploadBatch,
                 nextFile, drops>>

\* saveImageMetadata of one file completes: with an imageId, or without
\* one or rejected
MetadataDone ==
  /\ WriteLoaded
  /\ UNCHANGED notWriteVars
  /\ \E f \in Files, ok \in BOOLEAN :
       /\ uploadStage[f] = "metadata"
       /\ IF ok
          THEN LET imgs == MarkUploaded(uploadedImages, f)
               IN IF ~isDragging /\ HasUndefined(imgs)
                  THEN \* renderImagePreviews() throws inside the try
                       UploadCatch(f, imgs, "done")
                  ELSE /\ AfterSettle(f, imgs,
                                      renderImagePreviews(imgs, previews,
                                                          isDragging, FALSE),
                                      renderPrimary(imgs, primaryImageIndex,
                                                    primaryShown, isDragging,
                                                    FALSE),
                                      [uploadStage EXCEPT ![f] = "done"])
                       /\ lastEvent' = NoEvent
          ELSE UploadFailed(f)
  /\ UNCHANGED <<primaryImageIndex, draggedIndex, isDragging, uploadBatch,
                 nextFile, drops>>

\* a click on the remove button of preview item index
RemoveClick ==
  /\ WriteLive /\ ~isDragging
  /\ UNCHANGED notWriteVars
  /\ \E index \in 0..(Len(previews) - 1) :
       LET imgs == SpliceRemove(uploadedImages, index)
       IN /\ uploadedImages' = imgs
          /\ primaryImageIndex' =
               PrimaryAfterRemove(Len(imgs), index, primaryImageIndex)
          /\ previews' = renderImagePreviews(imgs, previews, isDragging, FALSE)
          /\ primaryShown' =
               renderPrimary(imgs,
                             PrimaryAfterRemove(Len(imgs), index,
                                                primaryImageIndex),
                             primaryShown, isDragging, FALSE)
  /\ UNCHANGED <<draggedIndex, isDragging, pendingUploads, uploadStage,
                 uploadBatch, submit, postRequest, nextFile, drops>>
  /\ lastEvent' = NoEvent

\* a click on the "primary" button of preview item index; the item drawn
\* as primary has no such button
SetPrimaryClick ==
  /\ WriteLive /\ ~isDragging
  /\ UNCHANGED notWriteVars
  /\ \E index \in 0..(Len(previews) - 1) :
       LET p == IF index < Len(uploadedImages) THEN index
                ELSE primaryImageIndex
       IN /\ index # primaryShown
          /\ primaryImageIndex' = p
          /\ previews' = renderImagePreviews(uploadedImages, previews,
                                             isDragging, FALSE)
          /\ primaryShown' = renderPrimary(uploadedImages, p, primaryShown,
                                           isDragging, FALSE)
  /\ UNCHANGED <<uploadedImages, draggedIndex, isDragging, pendingUploads,
                 uploadStage, uploadBatch, submit, postRequest, nextFile,
                 drops>>
  /\ lastEvent' = NoEvent

\* dragstart on preview item index
DragStart ==
  /\ WriteLive /\ ~isDragging
  /\ drops < MaxDrops
  /\ UNCHANGED notWriteVars
  /\ \E index \in 0..(Len(previews) - 1) :
       /\ isDragging' = TRUE
       /\ draggedIndex' = index
  /\ UNCHANGED <<uploadedImages, primaryImageIndex, pendingUploads,
                 uploadStage, uploadBatch, previews, primaryShown, submit,
                 postRequest, nextFile, drops>>
  /\ lastEvent' = NoEvent

\* drop on preview item targetIndex
Drop ==
  /\ WriteLive /\ isDragging
  /\ UNCHANGED notWriteVars
  /\ \E targetIndex \in 0..(Len(previews) - 1) :
       IF draggedIndex # NoIndex /\ draggedIndex # targetIndex
       THEN LET imgs == Reorder(uploadedImages, draggedIndex, targetIndex)
            IN /\ primaryImageIndex' =
                    PrimaryAfterDrop(draggedIndex, targetIndex,
                                     primaryImageIndex)
               /\ uploadedImages' = imgs
               /\ previews' = renderImagePreviews(imgs, previews, FALSE, TRUE)
               /\ primaryShown' =
                    renderPrimary(imgs,
                                  PrimaryAfterDrop(draggedIndex, targetIndex,
                                                   primaryImageIndex),
                                  primaryShown, FALSE, TRUE)
               /\ drops' = drops + 1
               /\ lastEvent' = [NoEvent EXCEPT !.kind = "drop",
                                               !.d = draggedIndex,
                                               !.t = targetIndex,
                                               !.before = uploadedImages,
                                               !.after = imgs]
       ELSE /\ UNCHANGED <<primaryImageIndex, uploadedImages, previews,
                           primaryShown, drops>>
            /\ lastEvent' = NoEvent
  /\ isDragging' = FALSE
  /\ draggedIndex' = NoIndex
  /\ UNCHANGED <<pendingUploads, uploadStage, uploadBatch, submit,
                 postRequest, nextFile>>

\* the drag ends without a drop on a preview item (dragend, or a drop on
\* the container outside the items)
DragEnd ==
  /\ WriteLive /\ isDragging
  /\ UNCHANGED notWriteVars
  /\ isDragging' = FALSE
  /\ draggedIndex' = NoIndex
  /\ UNCHANGED <<uploadedImages, primaryImageIndex, pendingUploads,
                 uploadStage, uploadBatch, previews, primaryShown, submit,
                 postRequest, nextFile, drops>>
  /\ lastEvent' = NoEvent

\* the clock advances: every image whose Date is now more than
\* IMAGE_EXPIRY_MS back is expired, which are the images uploaded up to
\* some image k
HourPasses ==
  /\ WriteLoaded
  /\ UNCHANGED notWriteVars
  /\ \E k \in 1..Len(uploadedImages) :
       /\ uploadedImages[k].uploadedAt = "fresh"
       /\ uploadedImages' =
            [i \in 1..Len(uploadedImages) |->
               IF /\ uploadedImages[i].uploadedAt = "fresh"
                  /\ uploadedImages[i].at <= uploadedImages[k].at
               THEN [uploadedImages[i] EXCEPT !.uploadedAt = "old"]
               ELSE uploadedImages[i]]
  /\ UNCHANGED <<primaryImageIndex, draggedIndex, isDragging, pendingUploads,
                 uploadStage, uploadBatch, previews, primaryShown, submit,
                 postRequest, nextFile, drops>>
  /\ lastEvent' = NoEvent

\* the form is submitted (the submit button is enabled): handleSubmit up to
\* its first await
Submit ==
  /\ WriteLive /\ ~isDragging /\ modalHidden
  /\ submit.state = "idle"
  /\ UNCHANGED notWriteVars
  /\ LET fieldsValid == /\ validateTitleField(titleField)
                        /\ validateContentField(contentField)
     IN
       IF ~fieldsValid \/ HasUndefined(uploadedImages)
       THEN UNCHANGED <<uploadedImages, previews, primaryShown, submit,
                        postRequest>>
       ELSE IF (\E i \in 1..Len(uploadedImages) :
                  uploadedImages[i].isUploading) \/ pendingUploads # {}
       THEN /\ submit' = [submit EXCEPT !.state = "waiting",
                                        !.awaiting = pendingUploads]
            /\ UNCHANGED <<uploadedImages, previews, primaryShown,
                           postRequest>>
       ELSE LET go == SubmitProceed(uploadedImages, previews, primaryShown,
                                    uploadStage)
            IN /\ uploadedImages' = go.uploadedImages
               /\ previews' = go.previews
               /\ primaryShown' = go.primaryShown
               /\ submit' = [submit EXCEPT !.state = go.state,
                                           !.awaiting = {}]
               /\ postRequest' = go.postRequest
  /\ UNCHANGED <<primaryImageIndex, draggedIndex, isDragging, pendingUploads,
                 uploadStage, uploadBatch, nextFile, drops>>
  /\ lastEvent' = NoEvent

\* POST /posts completes: with a postId the draft is cleared, the preview
\* URLs are revoked and the page starts to leave for the post
\* (location.replace); the revoking forEach throws on an undefined entry
\* of the array, and then, as without a postId, the catch shows a toast and
\* enables the button again
CreatePostDone ==
  /\ WriteLoaded
  /\ submit.state = "creating"
  /\ UNCHANGED <<serviceVars, listVars, commentVars, modalVars>>
  /\ \E ok \in BOOLEAN :
       IF ok
       THEN /\ draftStorage' = NoItem
            /\ hasUnsavedChanges' = FALSE
            /\ savedText' = NoDraftEvent.saved
            /\ IF HasUndefined(uploadedImages)
               THEN /\ UNCHANGED uploadedImages
                    /\ submit' = [submit EXCEPT !.state = "idle",
                                                !.awaiting = {}]
                    /\ lastDraftEvent' = NoDraftEvent
               ELSE /\ uploadedImages' = <<>>
                    /\ submit' = [state |-> "submitted", awaiting |-> {},
                                  nav |-> "started"]
                    /\ lastDraftEvent' =
                         [NoDraftEvent EXCEPT !.kind = "submitted"]
       ELSE /\ submit' = [submit EXCEPT !.state = "idle", !.awaiting = {}]
            /\ lastDraftEvent' = NoDraftEvent
            /\ UNCHANGED <<uploadedImages, draftStorage, hasUnsavedChanges,
                           savedText>>
  /\ postRequest' = NoPostRequest
  /\ UNCHANGED <<primaryImageIndex, draggedIndex, isDragging, pendingUploads,
                 uploadStage, uploadBatch, previews, primaryShown, nextFile,
                 drops, titleField, contentField, draftSaveTimer, writeBoot,
                 modalPurpose, savedDraft, visits>>
  /\ lastEvent' = NoEvent


\* the navigation started by the page (location.replace, location.href)
\* commits and the page is unloaded
PageUnloads ==
  /\ page = "write"
  /\ submit.nav = "started"
  /\ UNCHANGED <<serviceVars, listVars, commentVars, modalVars>>
  /\ submit' = [submit EXCEPT !.nav = "left"]
  /\ draftSaveTimer' = FALSE
  /\ lastDraftEvent' = NoDraftEvent
  /\ UNCHANGED <<uploadedImages, primaryImageIndex, draggedIndex, isDragging,
                 pendingUploads, uploadStage, uploadBatch, previews,
                 primaryShown, postRequest, nextFile, drops, lastEvent,
                 titleField, contentField, draftStorage, hasUnsavedChanges,
                 writeBoot, modalPurpose, savedDraft, visits, savedText>>

NextWrite ==
  \/ AddImages \/ S3Done \/ MetadataDone \/ RemoveClick \/ SetPrimaryClick
  \/ DragStart \/ Drop \/ DragEnd \/ HourPasses \/ Submit \/ CreatePostDone
  \/ PageUnloads

----------------------------------------------------------------------------
\* The shared modal (utils/layout.js), used by every page

\* what is handed to openModal as onConfirm or options.onCancel: nothing, a
\* function that returns at once, that closes the modal, that opens another
\* modal or that throws, or a truthy value that is not a function
CallbackKinds == {"none", "plain", "closes", "opens", "throws",
                  "notfunction"}

\* the value is a function, which the handler calls
IsFunction(kind) == kind \notin {"none", "notfunction"}

\* "if (onConfirm) onConfirm()" and "if (typeof options.onCancel ===
\* 'function') options.onCancel()" throw: the callback throws, or the
\* truthy onConfirm cannot be called
Throws(kind, which) ==
  \/ kind = "throws"
  \/ kind = "notfunction" /\ which = "onConfirm"

\* currentModalHandlers = null
NoHandlers == [n |-> 0, onConfirm |-> "none", onCancel |-> "none"]

\* the four listeners openModal registers for the handlers h
ListenersOf(h) ==
  {[target |-> "modal-confirm", type |-> "click",
    handler |-> "handleConfirm", of |-> h],
   [target |-> "modal-cancel", type |-> "click",
    handler |-> "handleCancel", of |-> h],
   [target |-> "modal-overlay", type |-> "click",
    handler |-> "handleOverlayClick", of |-> h],
   [target |-> "document", type |-> "keydown",
    handler |-> "handleKeydown", of |-> h]}

\* the modal's state as one value; calls collects the callbacks invoked
\* while an event is dispatched
ModalState ==
  [hidden |-> modalHidden, current |-> currentModalHandlers,
   listeners |-> modalListeners, opens |-> modalOpens, calls |-> <<>>,
   over |-> lastOpenOver]

cleanupForgetsListeners(m) ==
  [m EXCEPT !.current = NoHandlers]

cleanupModalHandlers(m) ==
  IF m.current = NoHandlers THEN m
  ELSE [m EXCEPT !.listeners = @ \ ListenersOf(m.current),
                 !.current = NoHandlers]

closeModal(m) == cleanupModalHandlers([m EXCEPT !.hidden = TRUE])

\* loadModal once its fetch has resolved: container.innerHTML = html puts
\* new elements in place of the modal's, the overlay hidden as in the
\* component's markup; the click listeners go with the replaced elements,
\* the keydown listener of the document and currentModalHandlers stay
loadModal(m) ==
  [m EXCEPT !.hidden = TRUE,
            !.listeners = {l \in @ : l.target = "document"}]

openModal(m, onConfirm, onCancel) ==
  LET h == [n |-> m.opens + 1, onConfirm |-> onConfirm,
            onCancel |-> onCancel]
  IN [cleanupModalHandlers(m) EXCEPT
        !.listeners = @ \cup ListenersOf(h),
        !.current = h,
        !.hidden = FALSE,
        !.opens = @ + 1,
        !.over = ~m.hidden]

\* a callback of the handlers h is invoked, if it is a function
RunCallback(m, kind, h, which) ==
  LET m1 == [m EXCEPT !.calls = Append(@, [n |-> h.n, callback |-> which])]
  IN CASE kind = "none" -> m
       [] kind = "notfunction" -> m
       [] kind = "plain" -> m1
       [] kind = "throws" -> m1
       [] kind = "closes" -> closeModal(m1)
       [] kind = "opens" -> openModal(m1, "plain", "none")

\* the callback, then closeModal(); an exception leaves the handler before
\* closeModal()
handleConfirm(m, h) ==
  LET called == RunCallback(m, h.onConfirm, h, "onConfirm")
  IN IF Throws(h.onConfirm, "onConfirm") THEN called ELSE closeModal(called)

handleCancel(m, h) ==
  LET called == RunCallback(m, h.onCancel, h, "onCancel")
  IN IF Throws(h.onCancel, "onCancel") THEN called ELSE closeModal(called)

\* the listeners of a target in the order of their registration
RECURSIVE InOrder(_)
InOrder(L) ==
  IF L = {} THEN <<>>
  ELSE LET first == CHOOSE l \in L : \A k \in L : l.of.n <= k.of.n
       IN <<first>> \o InOrder(L \ {first})

\* an event is dispatched to the listeners the target had when the dispatch
\* began; a listener removed meanwhile is not run
RECURSIVE Dispatch(_, _)
Dispatch(m, pending) ==
  IF pending = <<>> THEN m
  ELSE LET l == Head(pending)
           after == IF l \notin m.listeners THEN m
                    ELSE IF l.handler = "handleConfirm"
                    THEN handleConfirm(m, l.of)
                    ELSE handleCancel(m, l.of)
       IN Dispatch(after, Tail(pending))

DispatchTo(m, target) ==
  Dispatch(m, InOrder({l \in m.listeners : l.target = target}))

NoClick == [on |-> "none", calls |-> <<>>, latest |-> NoHandlers]

SetModalState(m, on) ==
  /\ modalHidden' = m.hidden
  /\ currentModalHandlers' = m.current
  /\ modalListeners' = m.listeners
  /\ modalOpens' = m.opens
  /\ lastOpenOver' = m.over
  /\ lastClick' = IF on = "none" THEN NoClick
                  ELSE [on |-> on, calls |-> m.calls,
                        latest |-> currentModalHandlers]

InitModal ==
  /\ modalHidden = TRUE
  /\ currentModalHandlers = NoHandlers
  /\ modalListeners = {}
  /\ modalOpens = 0
  /\ lastOpenOver = FALSE
  /\ lastClick = NoClick

\* page code calls openModal(title, description, onConfirm, options)
OpenModal ==
  /\ page = "modal"
  /\ UNCHANGED notModalVars
  /\ modalOpens < MaxOpens
  /\ \E onConfirm \in CallbackKinds, onCancel \in CallbackKinds :
       SetModalState(openModal(ModalState, onConfirm, onCancel), "none")

\* page code calls closeModal()
CloseModal ==
  /\ page = "modal"
  /\ UNCHANGED notModalVars
  /\ SetModalState(closeModal(ModalState), "none")

\* a click on the confirm button of the open modal
ConfirmClick ==
  /\ page = "modal"
  /\ UNCHANGED notModalVars
  /\ ~modalHidden
  /\ SetModalState(DispatchTo(ModalState, "modal-confirm"), "confirm")

\* a click on the cancel button of the open modal
CancelClick ==
  /\ page = "modal"
  /\ UNCHANGED notModalVars
  /\ ~modalHidden
  /\ SetModalState(DispatchTo(ModalState, "modal-cancel"), "cancel")

\* a click on the overlay itself, outside the dialog
OverlayClick ==
  /\ page = "modal"
  /\ UNCHANGED notModalVars
  /\ ~modalHidden
  /\ SetModalState(DispatchTo(ModalState, "modal-overlay"), "overlay")

\* the Escape key is pressed
EscapeKey ==
  /\ page = "modal"
  /\ UNCHANGED notModalVars
  /\ SetModalState(DispatchTo(ModalState, "document"), "escape")

\* page code calls loadModal() or loadLayout(): the markup is fetched and
\* put into #modal-container; a failed fetch is logged and changes nothing
LoadModal ==
  /\ page = "modal"
  /\ UNCHANGED notModalVars
  /\ \E ok \in BOOLEAN :
       SetModalState(IF ok THEN loadModal(ModalState) ELSE ModalState,
                     "none")

NextModal ==
  \/ OpenModal \/ CloseModal \/ LoadModal \/ ConfirmClick \/ CancelClick
  \/ OverlayClick \/ EscapeKey

----------------------------------------------------------------------------
\* Write page: typing, the draft timer, page loads and the page's modals

\* the page after the user typed a title and a content and the draft timer
\* fired
InitDraftTyped ==
  /\ titleField = <<"h", "i">>
  /\ contentField = <<"h", "i">>
  /\ draftStorage = saveDraft(titleField, contentField)
  /\ draftSaveTimer = FALSE
  /\ hasUnsavedChanges = TRUE
  /\ writeBoot = "ready"
  /\ modalPurpose = "none"
  /\ savedDraft = NoDraft
  /\ visits = 1
  /\ savedText = [title |-> titleField, content |-> contentField]
  /\ lastDraftEvent = NoDraftEvent

\* the input handler of the title field: the field holds title afterwards
TypeTitle ==
  /\ WriteLive /\ modalHidden
  /\ UNCHANGED <<serviceVars, listVars, commentVars, writeVars, modalVars>>
  /\ \E title \in DraftTexts :
       /\ title # titleField
       /\ titleField' = SubSeq(title, 1, Min(Len(title), TITLE_MAX))
  /\ draftSaveTimer' = TRUE
  /\ lastDraftEvent' = NoDraftEvent
  /\ UNCHANGED <<contentField, draftStorage, hasUnsavedChanges, writeBoot,
                 modalPurpose, savedDraft, visits, savedText>>

\* the input handler of the content field
TypeContent ==
  /\ WriteLive /\ modalHidden
  /\ UNCHANGED <<serviceVars, listVars, commentVars, writeVars, modalVars>>
  /\ \E content \in DraftTexts :
       /\ content # contentField
       /\ contentField' = SubSeq(content, 1, Min(Len(content), CONTENT_MAX))
  /\ draftSaveTimer' = TRUE
  /\ lastDraftEvent' = NoDraftEvent
  /\ UNCHANGED <<titleField, draftStorage, hasUnsavedChanges, writeBoot,
                 modalPurpose, savedDraft, visits, savedText>>

\* the timer of scheduleDraftSave fires: saveDraft()
DraftTimerFires ==
  /\ WriteLoaded
  /\ draftSaveTimer
  /\ UNCHANGED <<serviceVars, listVars, commentVars, writeVars, modalVars>>
  /\ draftStorage' = saveDraft(titleField, contentField)
  /\ hasUnsavedChanges' = (titleField # <<>> \/ contentField # <<>>)
  /\ savedText' = [title |-> titleField, content |-> contentField]
  /\ draftSaveTimer' = FALSE
  /\ lastDraftEvent' = NoDraftEvent
  /\ UNCHANGED <<titleField, contentField, writeBoot, modalPurpose,
                 savedDraft, visits>>

\* the write page is loaded again: the module state is new, localStorage
\* is kept, and the DOMContentLoaded handler runs up to its wait for
\* getCurrentUser(); the page is shown, no listener of the page is attached
Revisit ==
  /\ page = "write"
  /\ visits < MaxVisits
  /\ UNCHANGED <<serviceVars, listVars, commentVars>>
  /\ uploadedImages' = <<>>
  /\ primaryImageIndex' = 0
  /\ draggedIndex' = NoIndex
  /\ isDragging' = FALSE
  /\ pendingUploads' = {}
  /\ uploadStage' = [f \in Files |-> "none"]
  /\ uploadBatch' = [f \in Files |-> 0]
  /\ previews' = <<>>
  /\ primaryShown' = NoIndex
  /\ submit' = IdleSubmitState
  /\ postRequest' = NoPostRequest
  /\ nextFile' = 1
  /\ drops' = 0
  /\ lastEvent' = NoEvent
  /\ titleField' = <<>>
  /\ contentField' = <<>>
  /\ draftSaveTimer' = FALSE
  /\ hasUnsavedChanges' = FALSE
  /\ visits' = visits + 1
  /\ writeBoot' = "user"
  /\ SetModalState([ModalState EXCEPT !.hidden = TRUE, !.current = NoHandlers,
                                      !.listeners = {}, !.opens = 0,
                                      !.over = FALSE], "none")
  /\ modalPurpose' = "none"
  /\ savedDraft' = NoDraft
  /\ lastDraftEvent' = NoDraftEvent
  /\ UNCHANGED <<draftStorage, savedText>>

\* text is typed into a field before the page has attached its input
\* listeners: the field changes and nothing else
TypeUnready ==
  /\ WriteLoaded /\ writeBoot = "user"
  /\ UNCHANGED <<serviceVars, listVars, commentVars, writeVars, modalVars>>
  /\ \E text \in DraftTexts :
       \/ /\ text # titleField
          /\ titleField' = text
          /\ UNCHANGED contentField
       \/ /\ text # contentField
          /\ contentField' = text
          /\ UNCHANGED titleField
  /\ lastDraftEvent' = NoDraftEvent
  /\ UNCHANGED <<draftStorage, draftSaveTimer, hasUnsavedChanges, writeBoot,
                 modalPurpose, savedDraft, visits, savedText>>

\* the form is submitted before handleSubmit is attached: nothing calls
\* preventDefault and the browser submits the form, which navigates
NativeSubmit ==
  /\ WriteLoaded /\ writeBoot = "user"
  /\ submit.nav = "none"
  /\ UNCHANGED <<serviceVars, listVars, commentVars, modalVars>>
  /\ submit' = [submit EXCEPT !.nav = "started"]
  /\ lastDraftEvent' = NoDraftEvent
  /\ UNCHANGED <<uploadedImages, primaryImageIndex, draggedIndex, isDragging,
                 pendingUploads, uploadStage, uploadBatch, previews,
                 primaryShown, postRequest, nextFile, drops, lastEvent,
                 titleField, contentField, draftStorage, draftSaveTimer,
                 hasUnsavedChanges, writeBoot, modalPurpose, savedDraft,
                 visits, savedText>>

\* getCurrentUser() settles and the DOMContentLoaded handler runs to its
\* end: the login modal, or the listeners and the recovery prompt
CurrentUserLoaded ==
  /\ WriteLoaded /\ writeBoot = "user"
  /\ UNCHANGED <<serviceVars, listVars, commentVars, writeVars>>
  /\ \E loggedIn \in BOOLEAN :
       LET loaded == loadDraft(draftStorage)
           prompts == loaded.draft.title # <<>> \/ loaded.draft.content # <<>>
       IN IF ~loggedIn
          THEN /\ SetModalState(openModal(ModalState, "plain", "plain"),
                                "none")
               /\ modalPurpose' = "login"
               /\ writeBoot' = "login"
               /\ lastDraftEvent' = NoDraftEvent
               /\ UNCHANGED <<draftStorage, savedDraft, savedText>>
          ELSE /\ writeBoot' = "ready"
               /\ draftStorage' = loaded.item
               /\ savedText' = IF loaded.item = NoItem
                               THEN NoDraftEvent.saved ELSE savedText
               /\ lastDraftEvent' = [NoDraftEvent EXCEPT
                                      !.kind = "visit",
                                      !.saved = savedText,
                                      !.prompted = prompts]
               /\ IF prompts
                  THEN /\ SetModalState(openModal(ModalState, "closes",
                                                  "none"), "none")
                       /\ modalPurpose' = "recovery"
                       /\ savedDraft' = loaded.draft
                  ELSE /\ UNCHANGED modalVars
                       /\ modalPurpose' = "none"
                       /\ savedDraft' = NoDraft
  /\ UNCHANGED <<titleField, contentField, draftSaveTimer, hasUnsavedChanges,
                 visits>>

\* a click on the confirm button of the modal the write page opened: the
\* recovery prompt restores the draft, the login modal leaves for the login
\* page, the cancel modal closes itself, revokes the preview URLs and
\* leaves for the feed; revokeAllImageUrls throws on an undefined entry of
\* the array, and then the page stays
WriteModalConfirm ==
  /\ WriteLoaded
  /\ ~modalHidden
  /\ UNCHANGED <<serviceVars, listVars, commentVars>>
  /\ SetModalState(DispatchTo(ModalState, "modal-confirm"), "confirm")
  /\ modalPurpose' = "none"
  /\ savedDraft' = NoDraft
  /\ LET restored == restoreDraft(savedDraft, titleField, contentField)
     IN IF modalPurpose = "recovery"
        THEN /\ titleField' = restored.title
             /\ contentField' = restored.content
             /\ hasUnsavedChanges' = TRUE
             /\ lastDraftEvent' = [kind |-> "restore", saved |-> savedText,
                                   prompted |-> TRUE,
                                   fields |-> [title |-> titleField,
                                               content |-> contentField]]
             /\ UNCHANGED submit
        ELSE /\ submit' = IF /\ modalPurpose = "cancel"
                             /\ HasUndefined(uploadedImages)
                          THEN submit
                          ELSE [submit EXCEPT !.nav = "started"]
             /\ hasUnsavedChanges' = IF modalPurpose = "cancel" THEN FALSE
                                     ELSE hasUnsavedChanges
             /\ lastDraftEvent' = NoDraftEvent
             /\ UNCHANGED <<titleField, contentField>>
  /\ UNCHANGED <<uploadedImages, primaryImageIndex, draggedIndex, isDragging,
                 pendingUploads, uploadStage, uploadBatch, previews,
                 primaryShown, postRequest, nextFile, drops, lastEvent,
                 draftStorage, draftSaveTimer, writeBoot, visits, savedText>>

\* the modal the write page opened is dismissed: cancel button, click on
\* the overlay, or Escape
WriteModalCancel ==
  /\ WriteLoaded
  /\ ~modalHidden
  /\ UNCHANGED <<serviceVars, listVars, commentVars>>
  /\ \E path \in {"cancel", "overlay", "escape"} :
       SetModalState(
         DispatchTo(ModalState,
                    CASE path = "cancel" -> "modal-cancel"
                      [] path = "overlay" -> "modal-overlay"
                      [] path = "escape" -> "document"),
         path)
  /\ modalPurpose' = "none"
  /\ savedDraft' = NoDraft
  /\ submit' = IF modalPurpose = "login"
               THEN [submit EXCEPT !.nav = "started"] ELSE submit
  /\ lastDraftEvent' = IF modalPurpose = "recovery"
                       THEN [NoDraftEvent EXCEPT !.kind = "decline",
                                                 !.saved = savedText,
                                                 !.prompted = TRUE]
                       ELSE NoDraftEvent
  /\ UNCHANGED <<uploadedImages, primaryImageIndex, draggedIndex, isDragging,
                 pendingUploads, uploadStage, uploadBatch, previews,
                 primaryShown, postRequest, nextFile, drops, lastEvent,
                 titleField, contentField, draftStorage, draftSaveTimer,
                 hasUnsavedChanges, writeBoot, visits, savedText>>

\* a click on the cancel button of the form: handleCancel()
CancelButton ==
  /\ WriteLive /\ modalHidden /\ ~isDragging
  /\ UNCHANGED <<serviceVars, listVars, commentVars>>
  /\ IF Trim(titleField) # <<>> \/ Trim(contentField) # <<>>
        \/ Len(uploadedImages) > 0
     THEN /\ modalOpens < MaxOpens
          /\ SetModalState(openModal(ModalState, "closes", "none"), "none")
          /\ modalPurpose' = "cancel"
          /\ UNCHANGED <<submit, draftStorage, hasUnsavedChanges, savedText>>
     ELSE /\ draftStorage' = NoItem
          /\ hasUnsavedChanges' = FALSE
          /\ savedText' = NoDraftEvent.saved
          /\ submit' = [submit EXCEPT !.nav = "started"]
          /\ UNCHANGED <<modalVars, modalPurpose>>
  /\ lastDraftEvent' = NoDraftEvent
  /\ UNCHANGED <<uploadedImages, primaryImageIndex, draggedIndex, isDragging,
                 pendingUploads, uploadStage, uploadBatch, previews,
                 primaryShown, postRequest, nextFile, drops, lastEvent,
                 titleField, contentField, draftSaveTimer, writeBoot,
                 savedDraft, visits>>

NextDraft ==
  \/ TypeTitle \/ TypeContent \/ DraftTimerFires \/ Revisit \/ TypeUnready
  \/ NativeSubmit \/ CurrentUserLoaded
  \/ WriteModalConfirm \/ WriteModalCancel \/ CancelButton \/ Submit
  \/ CreatePostDone \/ PageUnloads

----------------------------------------------------------------------------
\* Claims about the feed and my-posts lists

\* C1: on the feed and on the my-posts list at most one list request
\* (getPosts / getMyPosts) is in flight at any time.
ThmC1_OneListRequestInFlight == Len(listRequests) <= 1

\* a request started by an observer callback that delivered two
\* intersecting entries is in flight
WitC1_MultiEntryCallback ==
  /\ isLoading
  /\ Len(listRequests) = 1
  /\ lastCallback.started
  /\ Cardinality({i \in DOMAIN lastCallback.entries :
                    lastCallback.entries[i]}) >= 2

\* C3: after a page response with hasNext true and nextCursor c the next
\* list request carries cursor c (no cursor when c is null or empty), and
\* the posts of every new page are appended after the posts already shown,
\* none of which is replaced or removed.
CursorRoundTrip ==
  \A i \in 1..Len(listRequests) :
    (lastPage.seq > 0 /\ lastPage.resp.kind = "page"
       /\ "hasNext" \in DOMAIN lastPage.resp /\ lastPage.resp.hasNext)
    => listRequests[i].cursor =
         IF lastPage.resp.nextCursor \in Cursors
         THEN lastPage.resp.nextCursor ELSE Undefined

AppendedAfterShown ==
  /\ IsPrefix(postsList, postsList')
  /\ lastPage'.seq # lastPage.seq
       => postsList' = postsList \o
            (IF lastPage'.resp.kind = "page" THEN lastPage'.resp.posts
             ELSE <<>>)

ThmC3_CursorRoundTripAndAppend ==
  [](CursorRoundTrip) /\ [][AppendedAfterShown]_vars

\* two pages were appended and the third request carries the cursor of the
\* second page
WitC3_SecondPageAppended ==
  /\ lastPage.seq = 2
  /\ Len(postsList) = 2
  /\ Len(listRequests) = 1
  /\ lastPage.resp.nextCursor \in Cursors
  /\ listRequests[1].cursor = lastPage.resp.nextCursor

\* C4: the posts shown on the feed never contain the same id twice, also
\* when the backend returns a post id in two consecutive pages.
CexC4_FeedNoDuplicateIds == page = "feed" => NoDuplicates(postsList)

\* C5: once a page response reported hasNext false (or carried no hasNext),
\* no further list request is issued.
ThmC5_NoRequestAfterEnd == [][lastPage.ended => issued' = issued]_vars

\* an observer callback with an intersecting entry ran after the last page
\* was reported, and started nothing
WitC5_IntersectAfterEnd ==
  /\ lastPage.ended
  /\ lastCallback.afterSeq = lastPage.seq
  /\ \E i \in DOMAIN lastCallback.entries : lastCallback.entries[i]
  /\ ~lastCallback.started
  /\ issued < MaxLoads

----------------------------------------------------------------------------
\* Claims about the comments of the post-detail page

\* C2: comment requests are serialized, at most one getComments call is in
\* flight at any time.
CexC2_OneCommentRequestInFlight == Len(commentRequests) <= 1

\* C6: the merged comment list allComments never contains the same id
\* twice (every backend page has distinct ids).
ThmC6_NoDuplicateComments == NoDuplicates(allComments)

\* a "load more" page that repeats an id already merged was merged into a
\* non-empty list
WitC6_OverlappingPageMerged ==
  /\ lastMerge.before # <<>>
  /\ Range(lastMerge.before) \cap Range(lastMerge.page) # {}
  /\ Range(lastMerge.page) \ Range(lastMerge.before) # {}
  /\ Range(allComments) = Range(lastMerge.before) \cup Range(lastMerge.page)

----------------------------------------------------------------------------
\* Claims about the write page

\* the array without the entry of file f
WithoutFile(imgs, f) == SelectSeq(imgs, LAMBDA img : img.file # f)

\* C7: when handleSubmit builds the payload and calls createPost no image
\* upload is in flight, and every image then in uploadedImages has its
\* imageId in the payload.
CexC7_NoUploadInFlightAtCreatePost ==
  postRequest.sent =>
    /\ postRequest.uploadingAtCall = {}
    /\ \A f \in postRequest.shownAtCall :
         ImageIdOf(f) \in Range(postRequest.imageIds)

\* C8: the failure branch of an upload removes exactly the entry of the
\* image that failed and leaves every other entry, with its fields and its
\* relative order, as it was; the step changes the upload of no other file,
\* so the uploads still in flight stay in flight.
FailureRemovesOnlyItsEntry ==
  lastEvent.kind = "failure" =>
    lastEvent.after = WithoutFile(lastEvent.before, lastEvent.file)

FailureLeavesOtherUploads ==
  lastEvent'.kind = "failure" =>
    \A g \in Files \ {lastEvent'.file} : uploadStage'[g] = uploadStage[g]

ThmC8_FailedUploadRemovesOnlyItsEntry ==
  [](FailureRemovesOnlyItsEntry) /\ [][FailureLeavesOtherUploads]_vars

\* the failure of one upload took its entry from before another one, whose
\* upload is still in flight
WitC8_FailureBesideAnother ==
  /\ lastEvent.kind = "failure"
  /\ Len(lastEvent.before) = 2
  /\ lastEvent.before[1].file = lastEvent.file
  /\ lastEvent.before[2].isUploading
  /\ lastEvent.before[2].file \in lastEvent.others
  /\ uploadedImages = <<lastEvent.before[2]>>

\* C9 as stated: the drop swaps the entries at d and t and every other
\* entry keeps its position (d and t both index an entry when dropped).
CexC9_DropSwaps ==
  (/\ lastEvent.kind = "drop"
   /\ lastEvent.d < Len(lastEvent.before)
   /\ lastEvent.t < Len(lastEvent.before)) =>
    /\ Len(lastEvent.after) = Len(lastEvent.before)
    /\ \A i \in 1..Len(lastEvent.before) :
         lastEvent.after[i] =
           IF i = lastEvent.t + 1 THEN lastEvent.before[lastEvent.d + 1]
           ELSE IF i = lastEvent.d + 1 THEN lastEvent.before[lastEvent.t + 1]
           ELSE lastEvent.before[i]

\* C9, amended: the drop moves the entry at d to index t; the other entries
\* keep their relative order, those between the two indices shifting by one
\* toward d (d and t both index an entry when dropped).
ThmC9_DropMoves ==
  (/\ lastEvent.kind = "drop"
   /\ lastEvent.d < Len(lastEvent.before)
   /\ lastEvent.t < Len(lastEvent.before)) =>
    /\ lastEvent.d # lastEvent.t
    /\ Len(lastEvent.after) = Len(lastEvent.before)
    /\ lastEvent.after[lastEvent.t + 1] = lastEvent.before[lastEvent.d + 1]
    /\ RemoveAt(lastEvent.after, lastEvent.t + 1)
         = RemoveAt(lastEvent.before, lastEvent.d + 1)
    /\ uploadedImages = lastEvent.after

\* a drop two positions away from the dragged entry
WitC9_DropTwoAway ==
  /\ lastEvent.kind = "drop"
  /\ lastEvent.d = 0
  /\ lastEvent.t = 2
  /\ Len(lastEvent.before) = 3
  /\ uploadedImages = lastEvent.after

----------------------------------------------------------------------------
\* Claims about the modal

\* C10: after any sequence of openModal and closeModal calls the listeners
\* attached are those of the most recent openModal or none at all, and a
\* click on confirm invokes the onConfirm of the most recent openModal, if
\* it has one, exactly once and no other onConfirm.  (The set is complete
\* while the modal's elements are in the document; of a modal whose markup
\* loadModal has replaced, which is hidden with its handlers still
\* recorded, the keydown listener alone is left.)
ThmC10_OneSetOfModalListeners ==
  /\ modalListeners =
       IF currentModalHandlers = NoHandlers THEN {}
       ELSE IF modalHidden
       THEN {l \in ListenersOf(currentModalHandlers) :
               l.target = "document"}
       ELSE ListenersOf(currentModalHandlers)
  /\ currentModalHandlers # NoHandlers =>
       currentModalHandlers.n = modalOpens
  /\ lastClick.on = "confirm" =>
       lastClick.calls =
         IF IsFunction(lastClick.latest.onConfirm)
         THEN <<[n |-> lastClick.latest.n, callback |-> "onConfirm"]>>
         ELSE <<>>

\* a second modal was opened over the first one and its confirm button
\* clicked
WitC10_ConfirmOnSecondModal ==
  /\ lastClick.on = "confirm"
  /\ lastOpenOver
  /\ lastClick.latest.n = 2
  /\ lastClick.calls = <<[n |-> 2, callback |-> "onConfirm"]>>
  /\ modalListeners = {}

\* what a callback kind contributes to the calls of the handlers h
CallsOf(kind, h, which) ==
  IF IsFunction(kind) THEN <<[n |-> h.n, callback |-> which]>> ELSE <<>>

\* C11: a confirm click, a cancel click, a click on the overlay and the
\* Escape key each leave the modal hidden with no listener attached; the
\* confirm path invokes onConfirm and no onCancel, the three cancel paths
\* invoke options.onCancel and no onConfirm, and an Escape key pressed
\* while no modal is open invokes nothing.
CexC11_EveryPathClosesModal ==
  lastClick.on # "none" =>
    /\ modalHidden
    /\ modalListeners = {}
    /\ currentModalHandlers = NoHandlers
    /\ lastClick.calls =
         IF lastClick.latest = NoHandlers THEN <<>>
         ELSE IF lastClick.on = "confirm"
         THEN CallsOf(lastClick.latest.onConfirm, lastClick.latest,
                      "onConfirm")
         ELSE CallsOf(lastClick.latest.onCancel, lastClick.latest,
                      "onCancel")

----------------------------------------------------------------------------
\* Claims about the draft of the write page

\* C12: a draft saved with a non-empty title or content makes the next load
\* of the page open the recovery prompt holding exactly the saved title and
\* content, and accepting the prompt puts every non-empty one of these two
\* strings into its form field; with the fields as the reload left them
\* (nothing typed before the prompt) both fields then hold exactly the
\* saved strings.
ThmC12_DraftRoundTrip ==
  /\ (/\ lastDraftEvent.kind = "visit"
      /\ lastDraftEvent.saved # NoDraftEvent.saved) =>
       /\ lastDraftEvent.prompted
       /\ ~modalHidden
       /\ savedDraft.title = lastDraftEvent.saved.title
       /\ savedDraft.content = lastDraftEvent.saved.content
  /\ lastDraftEvent.kind = "restore" =>
       /\ lastDraftEvent.saved # NoDraftEvent.saved
       /\ lastDraftEvent.saved.title # <<>> =>
            titleField = lastDraftEvent.saved.title
       /\ lastDraftEvent.saved.content # <<>> =>
            contentField = lastDraftEvent.saved.content
       /\ lastDraftEvent.fields = NoDraftEvent.fields =>
            /\ titleField = lastDraftEvent.saved.title
            /\ contentField = lastDraftEvent.saved.content

\* a title of a backslash and a quote, saved without content, is back in
\* the title field after the reload
WitC12_SpecialTitleRestored ==
  /\ lastDraftEvent.kind = "restore"
  /\ lastDraftEvent.fields = NoDraftEvent.fields
  /\ titleField = <<"\\", "\"">>
  /\ contentField = <<>>
  /\ visits = 2
  /\ draftStorage # NoItem

\* C13: once a post was created the draft key is absent from localStorage
\* and stays absent until the page is unloaded.
CexC13_DraftAbsentAfterSubmit ==
  submit.state = "submitted" => draftStorage = NoItem

\* C14: dismissing the recovery prompt removes the draft key from
\* localStorage.
CexC14_DeclineClearsDraft ==
  lastDraftEvent.kind = "decline" => draftStorage = NoItem

----------------------------------------------------------------------------
\* Post API client (services/post/postApi.js): argument validation of
\* createPost / updatePost and the limit of getPosts / getMyPosts.
\*
\* A JavaScript value passed to the API is a record [t, n, runs]: t is its
\* type tag, n its numeric value (t = "number"), runs its text (t = "string")
\* as a sequence of runs [ch, n] of n equal characters, so that texts of
\* 10001 characters stay small.  "a" stands for any non-whitespace
\* character, " " for any whitespace character, digits stand for themselves.

JsUndefined == [t |-> "undefined", n |-> 0, runs |-> <<>>]
JsNull == [t |-> "null", n |-> 0, runs |-> <<>>]
JsNaN == [t |-> "nan", n |-> 0, runs |-> <<>>]
JsNumber(n) == [t |-> "number", n |-> n, runs |-> <<>>]
JsString(runs) == [t |-> "string", n |-> 0, runs |-> runs]

RunOf(ch, n) == IF n = 0 THEN <<>> ELSE <<[ch |-> ch, n |-> n]>>
Spaces(n) == RunOf(" ", n)
Letters(n) == RunOf("a", n)

RECURSIVE RunsLength(_)
\* String.prototype.length
RunsLength(runs) ==
  IF runs = <<>> THEN 0 ELSE Head(runs).n + RunsLength(Tail(runs))

RECURSIVE RunsTrimStart(_)
RunsTrimStart(runs) ==
  IF runs = <<>> THEN runs
  ELSE IF Head(runs).ch = " " THEN RunsTrimStart(Tail(runs))
  ELSE runs

RECURSIVE RunsTrimEnd(_)
RunsTrimEnd(runs) ==
  IF runs = <<>> THEN runs
  ELSE IF runs[Len(runs)].ch = " "
  THEN RunsTrimEnd(SubSeq(runs, 1, Len(runs) - 1))
  ELSE runs

\* no trimming: the text is measured and sent as typed
RunsNoTrim(runs) == runs

\* String.prototype.trim
RunsTrim(runs) == RunsTrimEnd(RunsTrimStart(runs))

MinTextLength == 2
MaxTitleLength == 26
MaxContentLength == 10000

\* validateTitle(title): TRUE when it returns, FALSE when it throws
validateTitle(title) ==
  /\ title.t = "string"
  /\ RunsLength(RunsTrim(title.runs)) # 0
  /\ ~(RunsLength(RunsTrim(title.runs)) < MinTextLength
       \/ RunsLength(RunsTrim(title.runs)) > MaxTitleLength)

\* validateContent(content): TRUE when it returns, FALSE when it throws
validateContent(content) ==
  /\ content.t = "string"
  /\ RunsLength(RunsTrim(content.runs)) # 0
  /\ LET length == RunsLength(RunsTrim(content.runs))
     IN ~(length < MinTextLength \/ length > MaxContentLength)

\* an imageIds argument [t, ids]: absent, null, a non-array value, or an
\* array whose elements are image ids, NaNId being an element that Number()
\* turns to NaN
NaNId == -1
AbsentIds == [t |-> "undefined", ids |-> <<>>]
NullIds == [t |-> "null", ids |-> <<>>]
NotAnArray == [t |-> "string", ids |-> <<>>]
ArrayOf(ids) == [t |-> "array", ids |-> ids]

\* normalizeImageIds(imageIds, {defaultValue: []}); call only when it does
\* not throw, that is when imageIds is no NotAnArray
normalizeImageIds(imageIds) ==
  IF imageIds.t \in {"undefined", "null"} THEN <<>>
  ELSE SelectSeq(imageIds.ids, LAMBDA id : id # NaNId)

NoBody ==
  [title |-> JsUndefined, content |-> JsUndefined, hasImageIds |-> FALSE,
   imageIds |-> <<>>, primaryImageId |-> NoImageId]

Rejected(message) ==
  [rejected |-> TRUE, error |-> message, requests |-> 0, method |-> None,
   body |-> NoBody]

\* createPost({title, content, imageIds, primaryImageId}): the rejection
\* or the POST /posts request (primaryImageId absent is NoImageId)
createPostCall(title, content, imageIds, primaryImageId) ==
  IF ~validateTitle(title) THEN Rejected("title")
  ELSE IF ~validateContent(content) THEN Rejected("content")
  ELSE IF imageIds.t \notin {"undefined", "null", "array"}
  THEN Rejected("imageIds")
  ELSE LET images == createPost([imageIds |-> normalizeImageIds(imageIds),
                                 primaryImageId |-> primaryImageId])
       IN [rejected |-> FALSE, error |-> None, requests |-> 1,
           method |-> "POST",
           body |-> [title |-> JsString(RunsTrim(title.runs)),
                     content |-> JsString(RunsTrim(content.runs)),
                     hasImageIds |-> TRUE,
                     imageIds |-> images.imageIds,
                     primaryImageId |-> images.primaryImageId]]

\* updatePost(postId, {title, content, imageIds}): the rejection or the
\* PATCH /posts/:id request
updatePost(postId, title, content, imageIds) ==
  IF postId \in {JsUndefined, JsNull, JsString(<<>>)}
  THEN Rejected("postId")
  ELSE IF title # JsUndefined /\ ~validateTitle(title)
  THEN Rejected("title")
  ELSE IF content # JsUndefined /\ ~validateContent(content)
  THEN Rejected("content")
  ELSE IF imageIds.t \notin {"undefined", "null", "array"}
  THEN Rejected("imageIds")
  ELSE IF title = JsUndefined /\ content = JsUndefined
          /\ imageIds = AbsentIds
  THEN Rejected("empty")
  ELSE [rejected |-> FALSE, error |-> None, requests |-> 1,
        method |-> "PATCH",
        body |-> [title |-> IF title = JsUndefined THEN JsUndefined
                            ELSE JsString(RunsTrim(title.runs)),
                  content |-> IF content = JsUndefined THEN JsUndefined
                              ELSE JsString(RunsTrim(content.runs)),
                  hasImageIds |-> imageIds # AbsentIds,
                  imageIds |-> IF imageIds = AbsentIds THEN <<>>
                               ELSE normalizeImageIds(imageIds),
                  primaryImageId |-> NoImageId]]

\* the digits a limit string is written with
DigitValue(ch) ==
  CASE ch = "0" -> 0 [] ch = "1" -> 1 [] ch = "5" -> 5 [] ch = "9" -> 9
    [] OTHER -> -1

RECURSIVE Pow10(_)
Pow10(n) == IF n = 0 THEN 1 ELSE 10 * Pow10(n - 1)

RECURSIVE DigitsValue(_, _)
\* the value of a string of digits, acc being the value of the digits read;
\* -1 when a character is no digit
DigitsValue(runs, acc) ==
  IF runs = <<>> THEN acc
  ELSE IF DigitValue(Head(runs).ch) < 0 THEN -1
  ELSE DigitsValue(Tail(runs),
                   acc * Pow10(Head(runs).n)
                   + DigitValue(Head(runs).ch)
                     * ((Pow10(Head(runs).n) - 1) \div 9))

\* Number(value) for the values of the model: a number, or JsNaN
ToNumber(value) ==
  CASE value.t = "number" -> value
    [] value.t = "null" -> JsNumber(0)
    [] value.t = "string" ->
         LET text == RunsTrim(value.runs)
             negative == text # <<>> /\ Head(text) = [ch |-> "-", n |-> 1]
             digits == IF negative THEN Tail(text) ELSE text
         IN IF text = <<>> THEN JsNumber(0)
            ELSE IF digits = <<>> \/ DigitsValue(digits, 0) < 0 THEN JsNaN
            ELSE JsNumber(IF negative THEN 0 - DigitsValue(digits, 0)
                          ELSE DigitsValue(digits, 0))
    [] OTHER -> JsNaN

\* Number(limit) for the argument limit of getPosts (dflt = 10) or
\* getMyPosts (dflt = 20), the default parameter value replacing an absent
\* limit; NaN is written 0, as NaN || dflt and 0 || dflt are both dflt
LimitNumber(limit, dflt) ==
  LET number == ToNumber(IF limit = JsUndefined THEN JsNumber(dflt)
                         ELSE limit)
  IN IF number = JsNaN THEN 0 ELSE number.n

\* arguments given to the post API
TextCores(max) ==
  {Letters(k) : k \in {0, 1, MinTextLength, max, max + 1}}
    \cup {Letters(1) \o Spaces(1) \o Letters(1)}

TextInputs(max) ==
  {JsUndefined, JsNull, JsNumber(12)}
    \cup {JsString(Spaces(l) \o core \o Spaces(r)) :
            l \in 0..MaxPad, r \in 0..MaxPad, core \in TextCores(max)}

ImageIdsInputs ==
  {AbsentIds, NullIds, NotAnArray, ArrayOf(<<>>), ArrayOf(<<1, NaNId, 2>>)}

PostIdInputs == {JsUndefined, JsString(<<>>), JsNumber(1)}

LimitInputs ==
  {JsUndefined, JsNull, JsNaN}
    \cup {JsNumber(n) : n \in {-5, -1, 0, 1, 10, 49, 50, 51, 999}}
    \cup {JsString(runs) :
            runs \in {<<>>, Letters(3), RunOf("9", 3), RunOf("0", 1),
                      RunOf("5", 1), RunOf("1", 1) \o RunOf("5", 1),
                      RunOf("5", 1) \o RunOf("1", 1),
                      RunOf("-", 1) \o RunOf("1", 1),
                      RunOf("5", 1) \o Letters(1)}
                      \cup {Spaces(l) \o RunOf("5", 1) \o Spaces(l) :
                              l \in 1..MaxPad}}

NoArgs ==
  [postId |-> JsUndefined, title |-> JsUndefined, content |-> JsUndefined,
   imageIds |-> AbsentIds, primaryImageId |-> NoImageId,
   limit |-> JsUndefined]

NoApiCall ==
  [fn |-> None, args |-> NoArgs, outcome |-> Rejected(None), limit |-> 0]

InitApi == apiCall = NoApiCall

\* a caller awaits createPost(...); the model follows one call, the
\* functions keeping no state between calls
CallCreatePost ==
  /\ page = "post-api"
  /\ apiCall = NoApiCall
  /\ \E title \in TextInputs(MaxTitleLength),
        content \in TextInputs(MaxContentLength),
        imageIds \in ImageIdsInputs, primaryImageId \in {NoImageId, 1} :
       apiCall' =
         [fn |-> "createPost",
          args |-> [NoArgs EXCEPT !.title = title, !.content = content,
                                  !.imageIds = imageIds,
                                  !.primaryImageId = primaryImageId],
          outcome |-> createPostCall(title, content, imageIds,
                                     primaryImageId),
          limit |-> 0]
  /\ UNCHANGED notApiVars

\* a caller awaits updatePost(postId, ...)
CallUpdatePost ==
  /\ page = "post-api"
  /\ apiCall = NoApiCall
  /\ \E postId \in PostIdInputs, title \in TextInputs(MaxTitleLength),
        content \in TextInputs(MaxContentLength),
        imageIds \in ImageIdsInputs :
       apiCall' =
         [fn |-> "updatePost",
          args |-> [NoArgs EXCEPT !.postId = postId, !.title = title,
                                  !.content = content,
                                  !.imageIds = imageIds],
          outcome |-> updatePost(postId, title, content, imageIds),
          limit |-> 0]
  /\ UNCHANGED notApiVars

ListCallOutcome ==
  [rejected |-> FALSE, error |-> None, requests |-> 1, method |-> "GET",
   body |-> NoBody]

\* a caller awaits getPosts({limit})
CallGetPosts ==
  /\ page = "post-api"
  /\ apiCall = NoApiCall
  /\ \E limit \in LimitInputs :
       apiCall' =
         [fn |-> "getPosts", args |-> [NoArgs EXCEPT !.limit = limit],
          outcome |-> ListCallOutcome,
          limit |-> getPosts(Undefined, LimitNumber(limit, 10)).limit]
  /\ UNCHANGED notApiVars

\* a caller awaits getMyPosts({limit})
CallGetMyPosts ==
  /\ page = "post-api"
  /\ apiCall = NoApiCall
  /\ \E limit \in LimitInputs :
       apiCall' =
         [fn |-> "getMyPosts", args |-> [NoArgs EXCEPT !.limit = limit],
          outcome |-> ListCallOutcome,
          limit |-> getMyPosts(Undefined, LimitNumber(limit, 20)).limit]
  /\ UNCHANGED notApiVars

NextApi ==
  CallCreatePost \/ CallUpdatePost \/ CallGetPosts \/ CallGetMyPosts

----------------------------------------------------------------------------
\* Claims about the post API client

\* the length of a text between its first and its last non-whitespace
\* character, 0 when it has none
CoreOf(runs) ==
  LET inked == {i \in 1..Len(runs) : runs[i].ch # " "}
  IN IF inked = {} THEN <<>>
     ELSE SubSeq(runs, CHOOSE i \in inked : \A j \in inked : i <= j,
                 CHOOSE i \in inked : \A j \in inked : i >= j)

\* the value is a text whose trimmed length lies in 2..max
InRange(value, max) ==
  /\ value.t = "string"
  /\ RunsLength(CoreOf(value.runs)) \in MinTextLength..max

\* the title (the content) the call validates is out of range
TitleOutOfRange ==
  /\ apiCall.fn = "createPost" \/ apiCall.args.title # JsUndefined
  /\ ~InRange(apiCall.args.title, MaxTitleLength)

ContentOutOfRange ==
  /\ apiCall.fn = "createPost" \/ apiCall.args.content # JsUndefined
  /\ ~InRange(apiCall.args.content, MaxContentLength)

\* the other reasons for which a call is rejected
OtherRejection ==
  \/ apiCall.args.imageIds = NotAnArray
  \/ /\ apiCall.fn = "updatePost"
     /\ \/ apiCall.args.postId \in {JsUndefined, JsNull, JsString(<<>>)}
        \/ /\ apiCall.args.title = JsUndefined
           /\ apiCall.args.content = JsUndefined
           /\ apiCall.args.imageIds = AbsentIds

\* an accepted call issued one request, with the trimmed title and content
\* for those that were supplied
CarriesTrimmed ==
  /\ apiCall.outcome.requests = 1
  /\ apiCall.args.title # JsUndefined =>
       apiCall.outcome.body.title = JsString(CoreOf(apiCall.args.title.runs))
  /\ apiCall.args.content # JsUndefined =>
       apiCall.outcome.body.content =
         JsString(CoreOf(apiCall.args.content.runs))

\* C15, as stated: createPost and updatePost reject, before any request is
\* issued, exactly the inputs whose title or content (validated when
\* supplied, always by createPost) has a trimmed length out of range, and
\* accepted requests carry the trimmed title and content.
CexC15_RejectsExactlyOutOfRange ==
  apiCall.fn \in {"createPost", "updatePost"} =>
    /\ apiCall.outcome.rejected <=> (TitleOutOfRange \/ ContentOutOfRange)
    /\ apiCall.outcome.rejected => apiCall.outcome.requests = 0
    /\ ~apiCall.outcome.rejected => CarriesTrimmed

\* C15, amended: createPost and updatePost reject, before any request is
\* issued, every input whose title or content (validated when supplied,
\* always by createPost) has a trimmed length outside 2..26 or 2..10000; an
\* input with both in range is rejected only for an imageIds that is no
\* array, or by updatePost for a missing postId or when no field is
\* supplied; accepted requests carry the trimmed title and content.
ThmC15_RejectsOutOfRange ==
  apiCall.fn \in {"createPost", "updatePost"} =>
    /\ (TitleOutOfRange \/ ContentOutOfRange) => apiCall.outcome.rejected
    /\ apiCall.outcome.rejected =>
         /\ apiCall.outcome.requests = 0
         /\ TitleOutOfRange \/ ContentOutOfRange \/ OtherRejection
    /\ ~apiCall.outcome.rejected => CarriesTrimmed

\* createPost was called with the title " a " and rejected it
WitC15_PaddedLetterRejected ==
  /\ apiCall.fn = "createPost"
  /\ apiCall.args.title = JsString(Spaces(1) \o Letters(1) \o Spaces(1))
  /\ InRange(apiCall.args.content, MaxContentLength)
  /\ apiCall.outcome.rejected
  /\ apiCall.outcome.error = "title"

\* C16: whatever the limit argument, the limit getPosts and getMyPosts send
\* lies in 1..50; a number above 50 is sent as 50, and 0 or a non-numeric
\* value as the default of the function (10, 20).
ThmC16_LimitClamped ==
  apiCall.fn \in {"getPosts", "getMyPosts"} =>
    LET limit == apiCall.args.limit
        dflt == IF apiCall.fn = "getPosts" THEN 10 ELSE 20
    IN /\ apiCall.limit \in 1..50
       /\ limit.t = "number" /\ limit.n > 50 => apiCall.limit = 50
       /\ limit = JsString(RunOf("9", 3)) => apiCall.limit = 50
       /\ limit.t = "number" /\ limit.n \in 1..50 =>
            apiCall.limit = limit.n
       /\ limit.t = "number" /\ limit.n < 0 => apiCall.limit = 1
       /\ \/ limit \in {JsNumber(0), JsString(RunOf("0", 1)), JsNaN,
                        JsUndefined}
          \/ limit.t = "string"
             /\ \E i \in 1..Len(limit.runs) : limit.runs[i].ch = "a"
          => apiCall.limit = dflt

\* getMyPosts was called with the string "999" and sent 50
WitC16_LargeStringClamped ==
  /\ apiCall.fn = "getMyPosts"
  /\ apiCall.args.limit = JsString(RunOf("9", 3))
  /\ apiCall.limit = 50

----------------------------------------------------------------------------
\* Express server: the AI proxy routes (routes/ai.js).  The model follows
\* one request from its arrival to its answer; requests share no state.

\* a field of the JSON body: absent, the empty string, or a non-empty string
Absent == "absent"
Empty == "empty"
Given == "given"
FieldValues == {Absent, Empty, Given}

\* !value
Falsy(value) == value \in {Absent, Empty}

GeminiStatuses == {200, 400, 429, 500, 503}

\* response.ok
Ok(status) == status \in 200..299

\* what the fetch of the Gemini endpoint yields: a rejection ("failed"), or
\* a response with a status and a body; the body is JSON with the expected
\* member ("result": a candidate text / image, or error.message), JSON
\* without it ("plain"), the JSON text null, text that is no JSON
\* ("not-json"), or a stream that fails while it is read ("unreadable")
GeminiBodies == {"result", "plain", "null", "not-json", "unreadable"}

GeminiResponses ==
  {[kind |-> "failed", status |-> 0, body |-> "unreadable"]}
    \cup {[kind |-> "response", status |-> s, body |-> b] :
            s \in GeminiStatuses, b \in GeminiBodies}

NoGemini == [kind |-> "none", status |-> 0, body |-> "unreadable"]

\* res.status(status).json({error, code}); error and code tell whether
\* the member is in the body
ErrorAnswer(status, code) ==
  [status |-> status, error |-> TRUE, code |-> code, success |-> FALSE]

\* res.json({success: true, ...})
SuccessAnswer ==
  [status |-> 200, error |-> FALSE, code |-> None, success |-> TRUE]

NoAnswer == [status |-> 0, error |-> FALSE, code |-> None, success |-> FALSE]

\* validateApiKey: the answer it sends, NoAnswer when it calls next()
validateApiKey(apiKey) ==
  IF ~apiKey THEN ErrorAnswer(500, "API_KEY_NOT_CONFIGURED") ELSE NoAnswer

\* POST /generate-prompt up to the fetch: the answer sent, NoAnswer when
\* the handler goes on to call Gemini
generatePromptChecks(body) ==
  IF Falsy(body.profileImageBase64)
  THEN ErrorAnswer(400, "PROFILE_IMAGE_REQUIRED")
  ELSE IF Falsy(body.postContent) THEN ErrorAnswer(400, "CONTENT_REQUIRED")
  ELSE NoAnswer

\* POST /generate-image without its check of profileImageBase64
generateImageChecksPromptOnly(body) ==
  IF Falsy(body.prompt) THEN ErrorAnswer(400, "PROMPT_REQUIRED")
  ELSE NoAnswer

\* POST /generate-image up to the fetch: the answer sent, NoAnswer when the
\* handler goes on to call Gemini
generateImageChecks(body) ==
  IF Falsy(body.prompt) THEN ErrorAnswer(400, "PROMPT_REQUIRED")
  ELSE IF Falsy(body.profileImageBase64)
  THEN ErrorAnswer(400, "PROFILE_IMAGE_REQUIRED")
  ELSE NoAnswer

\* the catch block of both handlers
InternalError == ErrorAnswer(500, "INTERNAL_ERROR")

\* POST /generate-prompt from the settling of the fetch on
generatePromptAnswer(gemini) ==
  IF gemini.kind = "failed" THEN InternalError
  ELSE IF ~Ok(gemini.status)
  THEN \* error = await response.json().catch(() => ({})); a null error
       \* makes error.error throw
       IF gemini.body = "null" THEN InternalError
       ELSE ErrorAnswer(gemini.status, "PROMPT_GENERATION_FAILED")
  ELSE \* data = await response.json(); a null data makes data.candidates
       \* throw
       IF gemini.body \in {"not-json", "unreadable", "null"}
       THEN InternalError
       ELSE IF gemini.body = "plain"
       THEN ErrorAnswer(500, "NO_PROMPT_RESULT")
       ELSE SuccessAnswer

\* POST /generate-image from the settling of the fetch on
generateImageAnswer(gemini) ==
  IF gemini.kind = "failed" THEN InternalError
  ELSE IF ~Ok(gemini.status)
  THEN \* errorText = await response.text(); JSON.parse(errorText), the
       \* text itself being the message when it is no JSON; a null error
       \* makes error.error throw
       IF gemini.body \in {"unreadable", "null"} THEN InternalError
       ELSE ErrorAnswer(gemini.status, "IMAGE_GENERATION_FAILED")
  ELSE IF gemini.body \in {"not-json", "unreadable", "null"}
       THEN InternalError
       ELSE IF gemini.body = "plain"
       THEN ErrorAnswer(500, "NO_IMAGE_RESULT")
       ELSE SuccessAnswer

AiBodies ==
  [prompt : FieldValues, profileImageBase64 : FieldValues,
   postContent : FieldValues, referenceImageBase64 : {Absent, Given}]

NoAiBody ==
  [prompt |-> Absent, profileImageBase64 |-> Absent, postContent |-> Absent,
   referenceImageBase64 |-> Absent]

IdleRoute ==
  [phase |-> "idle", route |-> None, apiKey |-> FALSE, body |-> NoAiBody,
   geminiCalls |-> 0, gemini |-> NoGemini, answer |-> NoAnswer]

InitAiRoute == aiRoute = IdleRoute

\* the state of a request once validateApiKey and the handler have run up
\* to an answer or to the fetch of the Gemini endpoint; checked is what the
\* handler's own checks answer
Arrived(route, apiKey, body, checked) ==
  LET early == IF validateApiKey(apiKey) # NoAnswer
               THEN validateApiKey(apiKey) ELSE checked
  IN [phase |-> IF early # NoAnswer THEN "answered" ELSE "calling",
      route |-> route, apiKey |-> apiKey, body |-> body,
      geminiCalls |-> IF early # NoAnswer THEN 0 ELSE 1,
      gemini |-> NoGemini, answer |-> early]

\* a request arrives at POST /api/ai/generate-prompt
PostGeneratePrompt ==
  /\ page = "server"
  /\ aiRoute.phase = "idle"
  /\ \E apiKey \in BOOLEAN, body \in AiBodies :
       aiRoute' = Arrived("generate-prompt", apiKey, body,
                          generatePromptChecks(body))
  /\ UNCHANGED notAiRouteVars

\* a request arrives at POST /api/ai/generate-image
PostGenerateImage ==
  /\ page = "server"
  /\ aiRoute.phase = "idle"
  /\ \E apiKey \in BOOLEAN, body \in AiBodies :
       aiRoute' = Arrived("generate-image", apiKey, body,
                          generateImageChecks(body))
  /\ UNCHANGED notAiRouteVars

\* the fetch of generate-prompt settles and the handler runs to its answer
GeneratePromptSettles ==
  /\ page = "server"
  /\ aiRoute.phase = "calling"
  /\ aiRoute.route = "generate-prompt"
  /\ \E gemini \in GeminiResponses :
       aiRoute' = [aiRoute EXCEPT !.phase = "answered", !.gemini = gemini,
                                  !.answer = generatePromptAnswer(gemini)]
  /\ UNCHANGED notAiRouteVars

\* the fetch of generate-image settles and the handler runs to its answer
GenerateImageSettles ==
  /\ page = "server"
  /\ aiRoute.phase = "calling"
  /\ aiRoute.route = "generate-image"
  /\ \E gemini \in GeminiResponses :
       aiRoute' = [aiRoute EXCEPT !.phase = "answered", !.gemini = gemini,
                                  !.answer = generateImageAnswer(gemini)]
  /\ UNCHANGED notAiRouteVars

NextAiRoute ==
  \/ PostGeneratePrompt
  \/ PostGenerateImage
  \/ GeneratePromptSettles
  \/ GenerateImageSettles

----------------------------------------------------------------------------
\* Express server: GET /api/image-proxy (server.js)

\* a host name is the sequence of its labels
allowedDomains ==
  {<<"ktb-community-images", "s3", "ap-northeast-2", "amazonaws", "com">>,
   <<"s3", "ap-northeast-2", "amazonaws", "com">>}

\* hostname.includes(domain), for host names that hold the domain label by
\* label or not at all
Includes(hostname, domain) ==
  \E i \in 1..Len(hostname) :
    /\ i + Len(domain) - 1 <= Len(hostname)
    /\ SubSeq(hostname, i, i + Len(domain) - 1) = domain

\* the url query parameter: absent, or a string; a string that new URL()
\* parses has a host name, possibly after a userinfo part that looks like
\* one
NoUrl == [given |-> FALSE, parses |-> FALSE, userinfo |-> <<>>,
          hostname |-> <<>>]

ProxyHosts ==
  allowedDomains
    \cup {<<"other-bucket", "s3", "ap-northeast-2", "amazonaws", "com">>,
          <<"s3", "ap-northeast-2", "amazonaws", "com", "evil", "example">>,
          <<"evil", "example">>, <<"localhost">>}

ProxyUrls ==
  {NoUrl, [NoUrl EXCEPT !.given = TRUE]}
    \cup {[given |-> TRUE, parses |-> TRUE, userinfo |-> u, hostname |-> h] :
            u \in {<<>>, <<"s3", "ap-northeast-2", "amazonaws", "com">>},
            h \in ProxyHosts}

\* what the fetch of the upstream URL yields: a rejection, a response, or
\* a response whose body fails while it is read
UpstreamResponses ==
  {[kind |-> "failed", status |-> 0], [kind |-> "unreadable", status |-> 200]}
    \cup {[kind |-> "response", status |-> s] : s \in {200, 403, 404, 500}}

NoUpstream == [kind |-> "none", status |-> 0]

IdleProxy ==
  [phase |-> "idle", url |-> NoUrl, fetches |-> 0, upstream |-> NoUpstream,
   status |-> 0]

InitImageProxy == imageProxy = IdleProxy

\* the handler up to its answer or to the fetch: the status answered, 0
\* when it goes on to fetch the URL
imageProxyChecks(url) ==
  IF ~url.given THEN 400
  ELSE IF ~url.parses THEN 500
  ELSE IF ~\E domain \in allowedDomains : Includes(url.hostname, domain)
  THEN 403
  ELSE 0

\* a request arrives at GET /api/image-proxy
GetImageProxy ==
  /\ page = "server"
  /\ imageProxy.phase = "idle"
  /\ \E url \in ProxyUrls :
       imageProxy' =
         [phase |-> IF imageProxyChecks(url) = 0 THEN "fetching"
                    ELSE "answered",
          url |-> url,
          fetches |-> IF imageProxyChecks(url) = 0 THEN 1 ELSE 0,
          upstream |-> NoUpstream,
          status |-> imageProxyChecks(url)]
  /\ UNCHANGED notImageProxyVars

\* the upstream fetch settles and the handler runs to its answer
UpstreamSettles ==
  /\ page = "server"
  /\ imageProxy.phase = "fetching"
  /\ \E upstream \in UpstreamResponses :
       imageProxy' =
         [imageProxy EXCEPT
            !.phase = "answered", !.upstream = upstream,
            !.status = IF upstream.kind \in {"failed", "unreadable"} THEN 500
                       ELSE IF ~Ok(upstream.status) THEN upstream.status
                       ELSE 200]
  /\ UNCHANGED notImageProxyVars

NextServer == NextAiRoute \/ GetImageProxy \/ UpstreamSettles

----------------------------------------------------------------------------
\* Client side AI image flow: generateAndUploadAiImage (imageApi.js) over
\* generateAiImageComplete (aiApi.js)

FlowSteps == <<"prompt", "image", "upload", "metadata">>

\* how the call of a step ends: "ok" when it returns, or the way it throws.
\* "no-success" is an answer without success (and, for the image call,
\* without image), "no-filename" an upload answer without storedFilename
StepOutcomes(step) ==
  CASE step = "prompt" ->
         {"ok", "network", "http-error", "not-json", "no-success"}
    [] step = "image" ->
         {"ok", "network", "http-error", "not-json", "no-success"}
    [] step = "upload" ->
         {"ok", "no-filename", "network", "http-error", "not-json"}
    [] step = "metadata" -> {"ok", "network", "http-error"}

\* the flow goes on although the awaited call threw
ProceedsAlways(step, outcome) == TRUE

\* await of the call of a step: the flow goes on when the call returned; a
\* throw leaves the async functions, which have no try / catch
Proceeds(step, outcome) == outcome \in {"ok", "no-filename"}

FlowArgs ==
  [content : {Empty, Given}, avatarImage : {Absent, Given},
   referenceImage : {Absent, Given}, onProgress : BOOLEAN]

NoFlowArgs ==
  [content |-> Empty, avatarImage |-> Absent, referenceImage |-> Absent,
   onProgress |-> FALSE]

\* phase: idle, the step whose call is awaited, resolved or rejected; calls:
\* the steps whose call was issued, in order; outcomes: how they ended;
\* progress: the steps reported to onProgress
IdleFlow ==
  [phase |-> "idle", args |-> NoFlowArgs, calls |-> <<>>, outcomes |-> <<>>,
   progress |-> <<>>]

InitAiFlow == aiFlow = IdleFlow

Report(flow, step) ==
  IF flow.args.onProgress
  THEN [flow EXCEPT !.progress = Append(@, step)] ELSE flow

\* the call of a step is issued and awaited
Issue(flow, step) ==
  [flow EXCEPT !.phase = step, !.calls = Append(@, step)]

\* the call of a step ended
Ended(flow, outcome) == [flow EXCEPT !.outcomes = Append(@, outcome)]

Reject(flow) == [flow EXCEPT !.phase = "rejected"]

\* the page calls generateAndUploadAiImage({content, avatarImage,
\* referenceImage, onProgress}): up to the fetch of generatePrompt, or to
\* the TypeError of avatarImage.data
StartFlow ==
  /\ page = "ai-client"
  /\ aiFlow.phase = "idle"
  /\ \E args \in FlowArgs :
       LET called == Report([IdleFlow EXCEPT !.args = args], "ai")
       IN aiFlow' =
            IF args.avatarImage = Absent THEN Reject(called)
            ELSE Issue(Report(called, "prompt"), "prompt")
  /\ UNCHANGED notAiFlowVars

\* generatePrompt settles; generateAiImageComplete goes on to generateImage
PromptSettles ==
  /\ page = "ai-client"
  /\ aiFlow.phase = "prompt"
  /\ \E outcome \in StepOutcomes("prompt") :
       LET ended == Ended(aiFlow, outcome)
       IN aiFlow' =
            IF Proceeds("prompt", outcome)
            THEN Issue(Report(ended, "image"), "image")
            ELSE Reject(ended)
  /\ UNCHANGED notAiFlowVars

\* generateImage settles; generateAiImageComplete returns and
\* generateAndUploadAiImage goes on to uploadBase64ToS3
ImageSettles ==
  /\ page = "ai-client"
  /\ aiFlow.phase = "image"
  /\ \E outcome \in StepOutcomes("image") :
       LET ended == Ended(aiFlow, outcome)
       IN aiFlow' =
            IF Proceeds("image", outcome)
            THEN Issue(Report(ended, "upload"), "upload")
            ELSE Reject(ended)
  /\ UNCHANGED notAiFlowVars

\* uploadBase64ToS3 settles; saveImageMetadata checks storedFilename and
\* posts the metadata
UploadSettles ==
  /\ page = "ai-client"
  /\ aiFlow.phase = "upload"
  /\ \E outcome \in StepOutcomes("upload") :
       LET ended == Ended(aiFlow, outcome)
       IN aiFlow' =
            IF Proceeds("upload", outcome)
            THEN IF outcome = "no-filename" THEN Reject(ended)
                 ELSE Issue(ended, "metadata")
            ELSE Reject(ended)
  /\ UNCHANGED notAiFlowVars

\* saveImageMetadata settles and the flow returns
MetadataSettles ==
  /\ page = "ai-client"
  /\ aiFlow.phase = "metadata"
  /\ \E outcome \in StepOutcomes("metadata") :
       LET ended == Ended(aiFlow, outcome)
       IN aiFlow' =
            IF Proceeds("metadata", outcome)
            THEN [ended EXCEPT !.phase = "resolved"]
            ELSE Reject(ended)
  /\ UNCHANGED notAiFlowVars

NextAiFlow ==
  \/ StartFlow
  \/ PromptSettles
  \/ ImageSettles
  \/ UploadSettles
  \/ MetadataSettles

----------------------------------------------------------------------------
\* Claims about the Express server and the client side AI flow

\* C17, as stated: a generate-image request whose body has no
\* profileImageBase64 is answered with 400 and PROFILE_IMAGE_REQUIRED,
\* whatever its other fields, without any call to Gemini.
CexC17_NoProfileImageIs400 ==
  aiRoute.route = "generate-image"
  /\ aiRoute.body.profileImageBase64 = Absent =>
    /\ aiRoute.geminiCalls = 0
    /\ aiRoute.answer.status = 400
    /\ aiRoute.answer.code = "PROFILE_IMAGE_REQUIRED"

\* C17, amended: a generate-image request without profileImageBase64 is
\* answered at once with an error and no call to Gemini is made for it:
\* 500 API_KEY_NOT_CONFIGURED when the server has no API key, else
\* 400 PROMPT_REQUIRED when it has no prompt either, else
\* 400 PROFILE_IMAGE_REQUIRED.
ThmC17_NoProfileImageIsRefused ==
  aiRoute.route = "generate-image"
  /\ aiRoute.body.profileImageBase64 \in {Absent, Empty} =>
    /\ aiRoute.phase = "answered"
    /\ aiRoute.geminiCalls = 0
    /\ aiRoute.gemini = NoGemini
    /\ aiRoute.answer.error
    /\ <<aiRoute.answer.status, aiRoute.answer.code>> =
         IF ~aiRoute.apiKey THEN <<500, "API_KEY_NOT_CONFIGURED">>
         ELSE IF aiRoute.body.prompt \in {Absent, Empty}
         THEN <<400, "PROMPT_REQUIRED">>
         ELSE <<400, "PROFILE_IMAGE_REQUIRED">>

\* a generate-image request with every field but profileImageBase64 was
\* refused
WitC17_OnlyProfileImageMissing ==
  /\ aiRoute.route = "generate-image"
  /\ aiRoute.apiKey
  /\ aiRoute.body = [prompt |-> Given, profileImageBase64 |-> Absent,
                     postContent |-> Given, referenceImageBase64 |-> Given]
  /\ aiRoute.answer = ErrorAnswer(400, "PROFILE_IMAGE_REQUIRED")

\* C18: the image proxy fetches no URL whose host name is not one of the
\* allow-listed domains; such a request is answered with 403.
CexC18_OnlyAllowedHostsFetched ==
  imageProxy.url.parses /\ imageProxy.url.hostname \notin allowedDomains =>
    /\ imageProxy.fetches = 0
    /\ imageProxy.status = 403

\* C19: a non-2xx status of Gemini is the status of the route's answer,
\* whose body has error and code; every error answer has both; a request
\* calls Gemini at most once.
CexC19_GeminiStatusPassedOn ==
  aiRoute.phase = "answered" =>
    /\ aiRoute.geminiCalls <= 1
    /\ ~aiRoute.answer.success =>
         aiRoute.answer.error /\ aiRoute.answer.code # None
    /\ aiRoute.gemini.kind = "response" /\ ~Ok(aiRoute.gemini.status) =>
         /\ aiRoute.answer.status = aiRoute.gemini.status
         /\ aiRoute.answer.error
         /\ aiRoute.answer.code # None

\* C20: the flow issues its calls in the order prompt, image, upload,
\* metadata, each after the one before succeeded; a step that fails is the
\* last one issued and the flow rejects.
ThmC20_StepsInOrder ==
  /\ IsPrefix(aiFlow.calls, FlowSteps)
  /\ Len(aiFlow.calls) \in {Len(aiFlow.outcomes), Len(aiFlow.outcomes) + 1}
  /\ \A k \in 2..Len(aiFlow.calls) : aiFlow.outcomes[k - 1] = "ok"
  /\ \A k \in 1..Len(aiFlow.outcomes) :
       aiFlow.outcomes[k] # "ok" =>
         aiFlow.phase = "rejected" /\ Len(aiFlow.calls) = k
  /\ aiFlow.phase = "resolved" =>
       /\ aiFlow.calls = FlowSteps
       /\ aiFlow.outcomes = <<"ok", "ok", "ok", "ok">>
  /\ aiFlow.phase \in {"prompt", "image", "upload", "metadata"} =>
       /\ aiFlow.calls # <<>>
       /\ aiFlow.calls[Len(aiFlow.calls)] = aiFlow.phase
       /\ Len(aiFlow.calls) = Len(aiFlow.outcomes) + 1

\* the upload failed after the prompt and the image calls succeeded
WitC20_UploadFailed ==
  /\ aiFlow.phase = "rejected"
  /\ aiFlow.calls = <<"prompt", "image", "upload">>
  /\ aiFlow.outcomes = <<"ok", "ok", "http-error">>

----------------------------------------------------------------------------
\* Claims about the lists, continued

\* a step in which a list request failed: it left the requests in flight
\* and no response was processed
ListRequestFailed ==
  Len(listRequests') < Len(listRequests) /\ lastPage' = lastPage

\* C30: when a list request fails after the first page was shown, the
\* cards, nextCursor, hasNext and the placeholder stay as they are and
\* isLoading is false again, so that the next load asks for the cursor of
\* the failed request; when the first page fails the list is replaced by
\* the error (feed) or empty (my-posts) state.
ThmC30_LaterFailureKeepsList ==
  [][ListRequestFailed =>
       /\ isLoading' = FALSE
       /\ nextCursor' = nextCursor
       /\ hasNext' = hasNext
       /\ isInitialLoad' = isInitialLoad
       /\ IF isInitialLoad
          THEN /\ postsList' = <<>>
               /\ placeholder' = IF page = "feed" THEN "error" ELSE "empty"
          ELSE /\ postsList' = postsList
               /\ placeholder' = placeholder
               /\ hasNext'
               /\ listRequests[1].cursor = QueryCursor(nextCursor')]_vars

\* the request of the second page failed: two requests were issued, the
\* second after the first page was shown, one page was processed and no
\* request is in flight
WitC30_SecondPageFailed ==
  /\ issued = 2
  /\ lastPage.seq = 1
  /\ lastCallback.started
  /\ lastCallback.afterSeq = 1
  /\ listRequests = <<>>
  /\ postsList # <<>>
  /\ ~isLoading
  /\ hasNext

----------------------------------------------------------------------------
\* Claims about the primary image

\* the file of the entry primaryImageIndex designates, 0 when it designates
\* none
PrimaryFile ==
  IF primaryImageIndex \in 0..(Len(uploadedImages) - 1)
     /\ uploadedImages[primaryImageIndex + 1] # UndefImage
  THEN uploadedImages[primaryImageIndex + 1].file
  ELSE 0

\* C24: primaryImageIndex is always an index of the array; a step that
\* changes the array (a reordering drop, a removal) leaves it on the image
\* that was primary, unless that image was removed, and then it is 0; so
\* only a set-primary click makes another image that is kept primary.
ThmC24_PrimaryFollowsImage ==
  [][/\ primaryImageIndex' \in 0..Max(Len(uploadedImages') - 1, 0)
     /\ uploadedImages' # uploadedImages =>
          IF PrimaryFile \in FilesOf(uploadedImages')
          THEN PrimaryFile' = PrimaryFile
          ELSE primaryImageIndex' = 0
    ]_vars

\* a drop moved the last of four images before the primary one, which is
\* file 2 and went from index 1 to index 2
WitC24_PrimaryShiftedByDrop ==
  /\ lastEvent.kind = "drop"
  /\ lastEvent.d = 3
  /\ lastEvent.t = 1
  /\ Len(lastEvent.before) = 4
  /\ lastEvent.before[2].file = 2
  /\ primaryImageIndex = 2
  /\ PrimaryFile = 2

\* C25: primaryImageIndex is always an index of uploadedImages, 0 when the
\* array is empty (and so keeps designating the chosen image when a failed
\* upload or the expiry check removes an entry).
CexC25_PrimaryIndexValid ==
  primaryImageIndex \in 0..Max(Len(uploadedImages) - 1, 0)

----------------------------------------------------------------------------
\* Post-detail page: the DOMContentLoaded handler, loadPost, and the like
\* and delete handlers (pages/post/post-detail.js)

\* status of a rejected request; 0 is a network failure (error.status is
\* undefined)
HttpStatuses == {0, 400, 401, 403, 404, 500}

\* last segment of location.pathname
PathIds == {"7", "", "undefined", "null"}

\* getPostIdFromUrl
getPostIdFromUrl(seg) ==
  IF seg = "" \/ seg = "undefined" \/ seg = "null" THEN Null ELSE seg

\* failure: the rejection of getCurrentUser or of the getPost of loadPost
NoFailure == [of |-> "none", status |-> 0, message |-> FALSE]

\* requests of one kind that may be in flight together
MaxInFlight == 2

\* likes: the addPostLike and removePostLike requests in flight; deletes,
\* refreshes: the deletePost requests and the getPost requests of
\* refreshPost in flight; comments: the createComment and deleteComment
\* requests in flight; toast: the toast shown last
IdleDetail ==
  [stage |-> "boot", seg |-> "", view |-> "blank", mainHidden |-> FALSE,
   modal |-> "none", toast |-> "none", isLiked |-> FALSE,
   isAuthor |-> FALSE, likes |-> [add |-> 0, remove |-> 0], deletes |-> 0,
   comments |-> [creating |-> 0, deleting |-> 0],
   refreshes |-> 0, location |-> "post", failure |-> NoFailure]

InitDetailLoad == detailLoad = IdleDetail

\* showToast(error.message || fallback, 'error')
ErrorToast(message) == IF message THEN "message" ELSE "fallback"

\* the page's document is loaded: promise continuations run until the
\* navigation it started has unloaded it
DetailLoaded == page = "post-load" /\ detailLoad.stage # "left"

\* DOMContentLoaded: renderPageLayout, then getCurrentUser is awaited
DetailBoot ==
  /\ page = "post-load"
  /\ detailLoad.stage = "boot"
  /\ \E seg \in PathIds :
       detailLoad' = [detailLoad EXCEPT !.stage = "auth", !.seg = seg]
  /\ UNCHANGED notDetailLoadVars

\* render404Content: the main content is replaced, the URL is kept; the
\* handler then finds no button to attach a listener to
render404Content(d) == [d EXCEPT !.stage = "done", !.view = "404"]

\* showLoginRequiredModal after the main content is hidden
LoginRequired(d) ==
  [d EXCEPT !.stage = "done", !.mainHidden = TRUE, !.modal = "login"]

\* loadPost up to its await
loadPostStart(d) ==
  IF getPostIdFromUrl(d.seg) = Null THEN render404Content(d)
  ELSE [d EXCEPT !.stage = "post"]

\* getCurrentUser settles: no user or a rejection opens the login-required
\* modal and returns; otherwise loadPost runs
CurrentUserSettles ==
  /\ page = "post-load"
  /\ detailLoad.stage = "auth"
  /\ \/ detailLoad' = loadPostStart(detailLoad)
     \/ detailLoad' = LoginRequired(detailLoad)
     \/ \E st \in HttpStatuses, msg \in BOOLEAN :
          detailLoad' =
            [LoginRequired(detailLoad) EXCEPT
               !.failure = [of |-> "user", status |-> st, message |-> msg]]
  /\ UNCHANGED notDetailLoadVars

\* renderPost(post): isLiked and the author's actions come from the post
renderPost(d, liked, author) ==
  [d EXCEPT !.view = "post", !.isLiked = liked, !.isAuthor = author]

\* getPost resolves: renderPost, then loadComments is awaited with no
\* listener attached yet; renderPost of a null post throws into the catch
\* of loadPost
GetPostResolves ==
  /\ page = "post-load"
  /\ detailLoad.stage = "post"
  /\ \/ \E liked, author \in BOOLEAN :
          detailLoad' = [renderPost(detailLoad, liked, author) EXCEPT
                           !.stage = "comments"]
     \/ detailLoad' = render404Content(detailLoad)
  /\ UNCHANGED notDetailLoadVars

\* the catch of loadPost: the error is logged, the 404 content is rendered
loadPostCatch(d, st, msg) ==
  render404Content([d EXCEPT !.failure =
                      [of |-> "post", status |-> st, message |-> msg]])

\* getPost rejects
GetPostRejects ==
  /\ page = "post-load"
  /\ detailLoad.stage = "post"
  /\ \E st \in HttpStatuses, msg \in BOOLEAN :
       detailLoad' = loadPostCatch(detailLoad, st, msg)
  /\ UNCHANGED notDetailLoadVars

\* getComments settles (loadComments catches its own failures), loadPost
\* returns and the handler attaches the like, delete and submit listeners
CommentsSettle ==
  /\ page = "post-load"
  /\ detailLoad.stage = "comments"
  /\ detailLoad' = [detailLoad EXCEPT !.stage = "done"]
  /\ UNCHANGED notDetailLoadVars

\* the buttons of the rendered post have their listeners and no modal
\* covers them
DetailReady ==
  /\ DetailLoaded
  /\ detailLoad.stage = "done"
  /\ detailLoad.view = "post"
  /\ detailLoad.modal = "none"

\* handleTogglePostLike up to its await
LikeClick ==
  /\ DetailReady
  /\ detailLoad.likes.add + detailLoad.likes.remove < MaxInFlight
  /\ detailLoad' =
       IF detailLoad.isLiked
       THEN [detailLoad EXCEPT !.likes.remove = @ + 1]
       ELSE [detailLoad EXCEPT !.likes.add = @ + 1]
  /\ UNCHANGED notDetailLoadVars

\* a like request settles: a result with postId sets isLiked from it, a
\* null result of a removal clears it, a rejection shows a toast
LikeSettles ==
  /\ DetailLoaded
  /\ \E wasLiked \in BOOLEAN :
       LET d == IF wasLiked
                THEN [detailLoad EXCEPT !.likes.remove = @ - 1]
                ELSE [detailLoad EXCEPT !.likes.add = @ - 1]
       IN /\ IF wasLiked THEN detailLoad.likes.remove > 0
                         ELSE detailLoad.likes.add > 0
          /\ \/ \E liked \in BOOLEAN :
                  detailLoad' = [d EXCEPT !.isLiked = liked]
             \/ detailLoad' =
                  [d EXCEPT !.isLiked = IF wasLiked THEN FALSE ELSE @]
             \/ \E msg \in BOOLEAN :
                  detailLoad' = [d EXCEPT !.toast = ErrorToast(msg)]
  /\ UNCHANGED notDetailLoadVars

\* handleDeletePost: the confirmation modal opens (the button is shown to
\* the author)
DeletePostClick ==
  /\ DetailReady
  /\ detailLoad.isAuthor
  /\ detailLoad' = [detailLoad EXCEPT !.modal = "delete"]
  /\ UNCHANGED notDetailLoadVars

\* the confirm callback of handleDeletePost up to its await; the modal
\* closes
DeleteConfirm ==
  /\ DetailLoaded
  /\ detailLoad.modal = "delete"
  /\ detailLoad.deletes < MaxInFlight
  /\ detailLoad' = [detailLoad EXCEPT !.modal = "none", !.deletes = @ + 1]
  /\ UNCHANGED notDetailLoadVars

\* the confirmation modal of the post or of a comment is dismissed
DeleteCancel ==
  /\ DetailLoaded
  /\ detailLoad.modal \in {"delete", "comment"}
  /\ detailLoad' = [detailLoad EXCEPT !.modal = "none"]
  /\ UNCHANGED notDetailLoadVars

\* deletePost settles: a success toast and the navigation to the feed, or
\* an error toast
DeleteSettles ==
  /\ DetailLoaded
  /\ detailLoad.deletes > 0
  /\ \/ detailLoad' = [detailLoad EXCEPT !.deletes = @ - 1,
                                         !.toast = "success",
                                         !.location = "feed"]
     \/ \E msg \in BOOLEAN :
          detailLoad' = [detailLoad EXCEPT !.deletes = @ - 1,
                                           !.toast = ErrorToast(msg)]
  /\ UNCHANGED notDetailLoadVars

\* refreshPost() up to its await
refreshPost(d) == [d EXCEPT !.refreshes = @ + 1]

\* a comment request may start: it and the refreshPost that follows it fit
\* the bound
CommentRoom ==
  detailLoad.comments.creating + detailLoad.comments.deleting
    + detailLoad.refreshes < MaxInFlight

\* handleSubmitComment up to its await: an empty comment only shows a toast
handleSubmitComment ==
  /\ DetailReady
  /\ \/ detailLoad' = [detailLoad EXCEPT !.toast = "comment-empty"]
     \/ /\ CommentRoom
        /\ detailLoad' = [detailLoad EXCEPT !.comments.creating = @ + 1]
  /\ UNCHANGED notDetailLoadVars

\* createComment settles: loadComments() and refreshPost(), or a toast
CreateCommentSettles ==
  /\ DetailLoaded
  /\ detailLoad.comments.creating > 0
  /\ LET d == [detailLoad EXCEPT !.comments.creating = @ - 1]
     IN \/ detailLoad' = refreshPost(d)
        \/ \E msg \in BOOLEAN :
             detailLoad' = [d EXCEPT !.toast = ErrorToast(msg)]
  /\ UNCHANGED notDetailLoadVars

\* handleDeleteComment for a comment that is not deleted: the confirmation
\* modal opens
handleDeleteComment ==
  /\ DetailReady
  /\ detailLoad' = [detailLoad EXCEPT !.modal = "comment"]
  /\ UNCHANGED notDetailLoadVars

\* the confirm callback of handleDeleteComment up to its await; the modal
\* closes
CommentDeleteConfirm ==
  /\ DetailLoaded
  /\ detailLoad.modal = "comment"
  /\ CommentRoom
  /\ detailLoad' = [detailLoad EXCEPT !.modal = "none",
                                      !.comments.deleting = @ + 1]
  /\ UNCHANGED notDetailLoadVars

\* deleteComment settles: a toast, then loadComments() and refreshPost();
\* or an error toast
CommentDeleteSettles ==
  /\ DetailLoaded
  /\ detailLoad.comments.deleting > 0
  /\ LET d == [detailLoad EXCEPT !.comments.deleting = @ - 1]
     IN \/ detailLoad' = refreshPost([d EXCEPT !.toast = "comment-deleted"])
        \/ \E msg \in BOOLEAN :
             detailLoad' = [d EXCEPT !.toast = ErrorToast(msg)]
  /\ UNCHANGED notDetailLoadVars

\* the getPost of refreshPost settles: renderPost, or the error is logged
\* (also the TypeError of renderPost on a null post)
RefreshSettles ==
  /\ DetailLoaded
  /\ detailLoad.refreshes > 0
  /\ \/ \E liked, author \in BOOLEAN :
          detailLoad' = [renderPost(detailLoad, liked, author) EXCEPT
                           !.refreshes = @ - 1]
     \/ detailLoad' = [detailLoad EXCEPT !.refreshes = @ - 1]
  /\ UNCHANGED notDetailLoadVars

\* the confirm callback of showLoginRequiredModal: the navigation to the
\* login page starts, the modal closes
LoginConfirm ==
  /\ DetailLoaded
  /\ detailLoad.modal = "login"
  /\ detailLoad' = [detailLoad EXCEPT !.modal = "none", !.location = "login"]
  /\ UNCHANGED notDetailLoadVars

\* the onCancel callback of showLoginRequiredModal: the navigation to the
\* feed starts, the modal closes
LoginCancel ==
  /\ DetailLoaded
  /\ detailLoad.modal = "login"
  /\ detailLoad' = [detailLoad EXCEPT !.modal = "none", !.location = "feed"]
  /\ UNCHANGED notDetailLoadVars

\* the navigation the page started commits and the page is unloaded
DetailUnloads ==
  /\ DetailLoaded
  /\ detailLoad.location # "post"
  /\ detailLoad' = [detailLoad EXCEPT !.stage = "left"]
  /\ UNCHANGED notDetailLoadVars

NextDetailLoad ==
  \/ DetailBoot \/ CurrentUserSettles \/ GetPostResolves \/ GetPostRejects
  \/ CommentsSettle \/ LikeClick \/ LikeSettles \/ DeletePostClick
  \/ DeleteConfirm \/ DeleteCancel \/ DeleteSettles \/ handleSubmitComment
  \/ CreateCommentSettles \/ handleDeleteComment \/ CommentDeleteConfirm
  \/ CommentDeleteSettles \/ RefreshSettles \/ LoginConfirm \/ LoginCancel
  \/ DetailUnloads

----------------------------------------------------------------------------
\* Claim about the failures of the post-detail page

\* C21: when the page has settled after the post request failed, a 401
\* shows the login-required modal, a 404 shows the inline 404 content with
\* the URL unchanged, and any other status shows a toast and not the 404
\* content.
CexC21_LoadFailureByStatus ==
  detailLoad.stage = "done" /\ detailLoad.failure.of = "post" =>
    /\ detailLoad.location = "post"
    /\ IF detailLoad.failure.status = 401
         THEN detailLoad.modal = "login" /\ detailLoad.view # "404"
       ELSE IF detailLoad.failure.status = 404
         THEN detailLoad.view = "404" /\ detailLoad.modal = "none"
       ELSE detailLoad.toast # "none" /\ detailLoad.view # "404"

----------------------------------------------------------------------------
\* The API client functions above the HTTP wrapper (services/post/postApi.js,
\* services/image/imageApi.js): what each returns or throws once the
\* wrapper's promise settles

AI_DAILY_LIMIT == 5

PostClientFns == {"createPost", "getPosts", "getPost", "updatePost",
                  "deletePost", "getMyPosts"}
ImageClientFns == {"getAiGenerationRemaining", "checkAiGenerationLimit",
                   "saveImageMetadata", "getImage", "deleteImage"}
ClientFns == PostClientFns \cup ImageClientFns

\* functions that check their arguments before the request
CheckedFns == ClientFns \ {"getPosts", "getMyPosts",
                           "getAiGenerationRemaining",
                           "checkAiGenerationLimit"}

\* response.data: undefined, null, or the payload; remaining is the field
\* of the payload of GET /ai-generations/remaining
NoData == [t |-> "undefined", remaining |-> 0]
ResponseData ==
  {NoData, [t |-> "null", remaining |-> 0]}
    \cup {[t |-> "data", remaining |-> r] : r \in {0, 1, AI_DAILY_LIMIT}}

\* what a promise settles to
Resolved(v) == [kind |-> "resolved", status |-> 0, message |-> FALSE,
                value |-> v]
RejectedWith(st, msg) == [kind |-> "rejected", status |-> st,
                          message |-> msg, value |-> NoData]
NotSettled == [kind |-> "pending", status |-> 0, message |-> FALSE,
              value |-> NoData]
\* new Error('... 필요합니다.') of an argument check: no status
ArgumentError == [kind |-> "rejected", status |-> -1, message |-> TRUE,
                  value |-> NoData]

WrapperOutcomes ==
  {Resolved(d) : d \in ResponseData}
    \cup {RejectedWith(st, msg) : st \in HttpStatuses, msg \in BOOLEAN}

\* response.data ?? null
DataOrNull(d) ==
  IF d.t \in {"undefined", "null"} THEN [t |-> "null", remaining |-> 0]
  ELSE d

\* getAiGenerationRemaining: a rejection of the wrapper is caught and the
\* fallback {remaining: 5, limit: 5, used: 0} is returned
getAiGenerationRemaining(w) ==
  IF w.kind = "rejected"
    THEN Resolved([t |-> "fallback", remaining |-> AI_DAILY_LIMIT])
  ELSE IF w.value.t \in {"undefined", "null"}
    THEN Resolved([t |-> "fallback", remaining |-> AI_DAILY_LIMIT])
  ELSE Resolved(w.value)

\* checkAiGenerationLimit
checkAiGenerationLimit(w) ==
  LET r == getAiGenerationRemaining(w)
  IN  IF r.kind = "rejected" THEN r
      ELSE IF r.value.remaining <= 0
        THEN Resolved([t |-> "limit-reached", remaining |-> 0])
      ELSE Resolved([t |-> "can-generate",
                     remaining |-> r.value.remaining])

\* the functions that await the wrapper outside any try: a rejection
\* propagates, a response gives response.data ?? null (getMyPosts: ?? an
\* empty page)
AwaitWrapper(fn, w) ==
  IF w.kind = "rejected" THEN w
  ELSE IF fn = "getMyPosts" /\ w.value.t \in {"undefined", "null"}
    THEN Resolved([t |-> "empty-page", remaining |-> 0])
  ELSE Resolved(DataOrNull(w.value))

ClientResult(fn, w) ==
  IF fn = "getAiGenerationRemaining" THEN getAiGenerationRemaining(w)
  ELSE IF fn = "checkAiGenerationLimit" THEN checkAiGenerationLimit(w)
  ELSE AwaitWrapper(fn, w)

IdleClient == [fn |-> "none", stage |-> "idle", wrapper |-> NotSettled,
               result |-> NotSettled]

InitClientCall == clientCall = IdleClient

\* a client function is called: a failed argument check rejects before
\* any request, otherwise the wrapper is called and awaited
ClientCalled ==
  /\ page = "api-client"
  /\ clientCall.stage = "idle"
  /\ \E fn \in ClientFns, valid \in BOOLEAN :
       clientCall' =
         IF fn \in CheckedFns /\ ~valid
           THEN [IdleClient EXCEPT !.fn = fn, !.stage = "settled",
                                   !.result = ArgumentError]
         ELSE [IdleClient EXCEPT !.fn = fn, !.stage = "sent"]
  /\ UNCHANGED notClientCallVars

\* the wrapper's promise settles and the function's continuation runs
WrapperSettles ==
  /\ page = "api-client"
  /\ clientCall.stage = "sent"
  /\ \E w \in WrapperOutcomes :
       clientCall' = [clientCall EXCEPT
                        !.stage = "settled", !.wrapper = w,
                        !.result = ClientResult(clientCall.fn, w)]
  /\ UNCHANGED notClientCallVars

NextClientCall == ClientCalled \/ WrapperSettles

----------------------------------------------------------------------------
\* Claim about the propagation of HTTP errors

\* C22: whenever the HTTP wrapper rejected with an error, the client
\* function that called it rejects with the same error (same status, same
\* message).
CexC22_WrapperErrorPropagates ==
  clientCall.stage = "settled" /\ clientCall.wrapper.kind = "rejected" =>
    clientCall.result = clientCall.wrapper

----------------------------------------------------------------------------
\* Toasts (utils/layout.js, showToast).  Time is counted in units of the
\* 300 ms fade; a timer fires when its remaining time is 0, and time
\* advances only when no timer is due.

MaxToasts == 3           \* calls of showToast in one run
ToastDurations == {1, 3} \* the duration argument
FadeTicks == 1           \* the 300 ms of the inner setTimeout

ToastIds == 1..MaxToasts

NoToast == [phase |-> "none", left |-> 0, container |-> 0]

\* toasts[i]: the i-th toast created; container is the container element
\* its closure holds.  inDocument is the .toast-container element attached
\* to the body (0: none), made counts the containers created.
IdleToasts == [toasts |-> [i \in ToastIds |-> NoToast], count |-> 0,
               inDocument |-> 0, made |-> 0]

InitToasts == toastView = IdleToasts

\* container.children of container k
ChildrenOf(tv, k) ==
  {i \in ToastIds : /\ tv.toasts[i].container = k
                    /\ tv.toasts[i].phase \in {"shown", "fading"}}

\* showToast(message, type, duration)
showToast(tv, duration) ==
  LET found == tv.inDocument # 0
      k == IF found THEN tv.inDocument ELSE tv.made + 1
      i == tv.count + 1
  IN  [tv EXCEPT !.toasts[i] = [phase |-> "shown", left |-> duration,
                                container |-> k],
                 !.count = i,
                 !.inDocument = k,
                 !.made = IF found THEN tv.made ELSE tv.made + 1]

ShowToast ==
  /\ page = "toast"
  /\ toastView.count < MaxToasts
  /\ \E duration \in ToastDurations :
       toastView' = showToast(toastView, duration)
  /\ UNCHANGED notToastViewVars

\* the outer timer: the fade class is added, the inner timer is set
FadeStarts ==
  /\ page = "toast"
  /\ \E i \in ToastIds :
       /\ toastView.toasts[i].phase = "shown"
       /\ toastView.toasts[i].left = 0
       /\ toastView' = [toastView EXCEPT !.toasts[i].phase = "fading",
                                         !.toasts[i].left = FadeTicks]
  /\ UNCHANGED notToastViewVars

\* the inner timer when the container is left in the document
removeToastOnly(tv, i) == [tv EXCEPT !.toasts[i].phase = "removed"]

\* the inner timer: toast.remove(), then the container is removed when it
\* has no children left
removeToast(tv, i) ==
  LET k == tv.toasts[i].container
      gone == [tv EXCEPT !.toasts[i].phase = "removed"]
  IN  IF ChildrenOf(gone, k) = {} /\ gone.inDocument = k
        THEN [gone EXCEPT !.inDocument = 0]
      ELSE gone

ToastRemoved ==
  /\ page = "toast"
  /\ \E i \in ToastIds :
       /\ toastView.toasts[i].phase = "fading"
       /\ toastView.toasts[i].left = 0
       /\ toastView' = removeToast(toastView, i)
  /\ UNCHANGED notToastViewVars

PendingToasts(tv) ==
  {i \in ToastIds : tv.toasts[i].phase \in {"shown", "fading"}}

\* one unit of time passes: no timer is due, every pending one gets nearer
ToastTick ==
  /\ page = "toast"
  /\ PendingToasts(toastView) # {}
  /\ \A i \in PendingToasts(toastView) : toastView.toasts[i].left > 0
  /\ toastView' =
       [toastView EXCEPT
          !.toasts = [i \in ToastIds |->
                        IF i \in PendingToasts(toastView)
                          THEN [toastView.toasts[i] EXCEPT !.left = @ - 1]
                        ELSE toastView.toasts[i]]]
  /\ UNCHANGED notToastViewVars

NextToast == ShowToast \/ FadeStarts \/ ToastRemoved \/ ToastTick

----------------------------------------------------------------------------
\* Claim about the toasts

\* the container is in the document exactly while it holds a toast, and
\* it is the container of every toast on screen
ContainerIffToasts ==
  /\ toastView.inDocument # 0 <=> PendingToasts(toastView) # {}
  /\ \A i \in PendingToasts(toastView) :
       toastView.toasts[i].container = toastView.inDocument

\* C23: every toast shown is eventually removed, whatever other toasts are
\* shown meanwhile; the shared container is in the document exactly while
\* a toast is left in it, so it goes with its last toast and a later toast
\* gets a container again.
ThmC23_ToastsGoAway ==
  /\ []ContainerIffToasts
  /\ \A i \in ToastIds :
       (toastView.toasts[i].phase = "shown")
         ~> (toastView.toasts[i].phase = "removed")

\* a toast was removed with its container while nothing else was shown,
\* and a later toast is on screen in a second container next to a toast
\* that outlives it
WitC23_SecondContainer ==
  /\ toastView.toasts[1].phase = "removed"
  /\ toastView.toasts[2].container = 2
  /\ toastView.toasts[3].phase = "removed"
  /\ toastView.toasts[2].phase = "shown"
  /\ toastView.inDocument = 2

----------------------------------------------------------------------------
\* Client configuration (services/api-config.js): fetchConfig with its
\* module variables configCache and configPromise, and its three callers

MaxCallers == 3          \* calls of the exported functions in one run

CallerIds == 1..MaxCallers

ConfigFns == {"initConfig", "getApiBaseUrl", "getImageUploadApi"}

\* what the promise chain of fetch('/config') can come to: the body is the
\* configuration object, another JSON object, the JSON value null, not
\* JSON (res.json() rejects), or fetch itself rejects
ConfigOutcomes == {"config", "other-json", "json-null", "not-json",
                   "network-error"}

\* the fallback of the catch callback
FallbackConfig == "fallback"

\* the value the chain resolves with, which is also assigned to configCache
ConfigValue(outcome) ==
  CASE outcome = "config" -> "server"
    [] outcome = "other-json" -> "other"
    [] outcome = "json-null" -> Null
    [] OTHER -> FallbackConfig

\* what the exported function makes of the configuration
ConfigResult(fn, config) ==
  IF fn = "initConfig" THEN "undefined"
  ELSE IF config = Null THEN "TypeError"
  ELSE IF config = "other" THEN "undefined"
  ELSE IF fn = "getApiBaseUrl"
    THEN (IF config = "server" THEN "server-base-url" ELSE "/api/")
  ELSE (IF config = "server" THEN "server-upload-api" ELSE "")

NoCaller == [fn |-> "none", stage |-> "none", config |-> "none",
             result |-> "none"]

IdleConfig ==
  [configCache |-> Null, configPromise |-> "none", outcome |-> "none",
   fetches |-> 0, called |-> 0,
   callers |-> [c \in CallerIds |-> NoCaller]]

InitConfig == configState = IdleConfig

\* fetchConfig goes on to fetch('/config') when the cache is only checked
NeedsFetchCacheOnly(cs) == cs.configCache = Null

\* fetchConfig goes on to fetch('/config'): neither if (configCache) nor
\* if (configPromise) returned
NeedsFetch(cs) == cs.configCache = Null /\ cs.configPromise = "none"

\* a caller's await of fetchConfig() is over
Obtained(fn, config) ==
  [fn |-> fn, stage |-> "done", config |-> config,
   result |-> ConfigResult(fn, config)]

\* an exported function is called and runs fetchConfig up to its await
ConfigCall ==
  /\ page = "config"
  /\ configState.called < MaxCallers
  /\ LET c == configState.called + 1
         counted == [configState EXCEPT !.called = c]
     IN  \E fn \in ConfigFns :
           configState' =
             IF configState.configCache # Null
               THEN [counted EXCEPT
                       !.callers[c] = Obtained(fn, configState.configCache)]
             ELSE IF NeedsFetch(configState)
               THEN [counted EXCEPT
                       !.configPromise = "pending",
                       !.fetches = @ + 1,
                       !.callers[c] = [NoCaller EXCEPT !.fn = fn,
                                                       !.stage = "waiting"]]
             ELSE IF configState.configPromise = "settled"
               THEN [counted EXCEPT
                       !.callers[c] =
                         Obtained(fn, ConfigValue(configState.outcome))]
             ELSE [counted EXCEPT
                     !.callers[c] = [NoCaller EXCEPT !.fn = fn,
                                                     !.stage = "waiting"]]
  /\ UNCHANGED notConfigStateVars

\* the chain of fetch('/config') settles: configCache is assigned and the
\* waiting callers go on with the value
ConfigSettles ==
  /\ page = "config"
  /\ configState.configPromise = "pending"
  /\ \E outcome \in ConfigOutcomes :
       configState' =
         [configState EXCEPT
            !.configCache = ConfigValue(outcome),
            !.configPromise = "settled",
            !.outcome = outcome,
            !.callers =
              [c \in CallerIds |->
                 IF configState.callers[c].stage = "waiting"
                   THEN Obtained(configState.callers[c].fn,
                                 ConfigValue(outcome))
                 ELSE configState.callers[c]]]
  /\ UNCHANGED notConfigStateVars

NextConfig == ConfigCall \/ ConfigSettles

----------------------------------------------------------------------------
\* Claim about the configuration request

DoneCallers == {c \in CallerIds : configState.callers[c].stage = "done"}

\* C28: at most one request to /config is sent; every caller that got the
\* configuration got the value that request came to; and that value is the
\* fallback when the request failed (fetch rejected or the body was not
\* JSON).
ThmC28_OneConfigRequest ==
  /\ configState.fetches <= 1
  /\ configState.called > 0 => configState.fetches = 1
  /\ \A c \in DoneCallers :
       /\ configState.callers[c].config = ConfigValue(configState.outcome)
       /\ configState.outcome \in {"not-json", "network-error"} =>
            configState.callers[c].config = FallbackConfig

\* three callers, one of each exported function, hold the fallback after
\* the one request failed
WitC28_ThreeCallersOneRequest ==
  /\ configState.fetches = 1
  /\ configState.outcome = "network-error"
  /\ DoneCallers = CallerIds
  /\ \A c \in CallerIds : configState.callers[c].config = FallbackConfig
  /\ {configState.callers[c].fn : c \in CallerIds} = ConfigFns

----------------------------------------------------------------------------
\* Profile-edit page (pages/profile/profile-edit.js): the nickname and
\* current-password checks on blur and on submit, and the update

MaxChecks == 1           \* checks of the blur handlers in flight at a time
MaxRuns == 2             \* calls of handleSubmit under way at a time
MaxPending == 2          \* checks, runs and image uploads under way together
MaxLate == 0             \* of these, started after the navigation has begun

\* state.currentUser.nickname
MyNickname == "me"

\* values of #nickname (all of a valid length), of #currentPassword and of
\* #newPassword and #newPasswordConfirm; the non-empty passwords stand for
\* strings of the required format
Nicknames == {MyNickname, "ann", "bob"}
Passwords == {"", "pw1", "pw2"}
NewPasswords == {"", "pw2"}

\* the answers of the server: "ann" is free, "bob" is taken; "pw1" is the
\* password of the account
NicknameFree(v) == v = "ann"
PasswordRight(v) == v = "pw1"

\* validatePassword(password): the empty string fails the length test
validatePassword(v) == v # ""

\* the page after loadUserData: the input holds the current nickname, which
\* counts as checked; the user has a profile picture, so setProfilePreview
\* shows #profileRemoveBtn.  checks: the requests of the blur handlers in
\* flight; readers: the FileReaders of the file input that have not loaded
\* yet; uploads: its uploadImageToS3 calls in flight; runs: the calls of
\* handleSubmit that are at an await, each with the values it read from
\* the inputs and its isValid; late: the checks, runs and picks started
\* since handleSubmit assigned location.href
IdleProfile ==
  [nickname |-> MyNickname, currentPassword |-> "",
   newPassword |-> "", newPasswordConfirm |-> "",
   profileImageMetadata |-> FALSE, removeImage |-> FALSE,
   removeBtnShown |-> TRUE, readers |-> 0, uploads |-> 0,
   nicknameChecked |-> TRUE, nicknameAvailable |-> TRUE,
   currentPasswordVerified |-> FALSE,
   checks |-> <<>>, runs |-> EmptyBag, isSubmitting |-> FALSE,
   location |-> "edit", late |-> 0]

InitProfileEdit == profileEdit = IdleProfile

\* the page's document is loaded: handlers and continuations run until the
\* navigation to /profile has unloaded it
ProfileLive == page = "profile-edit" /\ profileEdit.location # "left"

\* another request or run may start within the bounds
ProfileRoom ==
  /\ Len(profileEdit.checks) + BagCardinality(profileEdit.runs)
       + profileEdit.readers + profileEdit.uploads
       < MaxPending
  /\ profileEdit.location = "edit" \/ profileEdit.late < MaxLate

\* a request or run was started
Started(pe) ==
  [pe EXCEPT !.late = IF pe.location = "edit" THEN @ ELSE @ + 1]

\* input event of #nickname: the flags are reset
TypeNickname ==
  /\ ProfileLive
  /\ \E v \in Nicknames \ {profileEdit.nickname} :
       profileEdit' = [profileEdit EXCEPT !.nickname = v,
                                          !.nicknameChecked = FALSE,
                                          !.nicknameAvailable = FALSE]
  /\ UNCHANGED notProfileEditVars

\* input event of #currentPassword: the flag is reset
TypePassword ==
  /\ ProfileLive
  /\ \E v \in Passwords \ {profileEdit.currentPassword} :
       profileEdit' = [profileEdit EXCEPT !.currentPassword = v,
                                          !.currentPasswordVerified = FALSE]
  /\ UNCHANGED notProfileEditVars

\* input event of #newPassword: validatePasswordFields touches no state
TypeNewPassword ==
  /\ ProfileLive
  /\ \E v \in NewPasswords \ {profileEdit.newPassword} :
       profileEdit' = [profileEdit EXCEPT !.newPassword = v]
  /\ UNCHANGED notProfileEditVars

\* input event of #newPasswordConfirm
TypeNewPasswordConfirm ==
  /\ ProfileLive
  /\ \E v \in NewPasswords \ {profileEdit.newPasswordConfirm} :
       profileEdit' = [profileEdit EXCEPT !.newPasswordConfirm = v]
  /\ UNCHANGED notProfileEditVars

\* change event of #profileInput with an image file of an allowed size:
\* removeImage is reset and the file is handed to a FileReader
PickProfileImage ==
  /\ ProfileLive /\ ProfileRoom
  /\ profileEdit' = [Started(profileEdit) EXCEPT !.removeImage = FALSE,
                                                 !.readers = @ + 1]
  /\ UNCHANGED notProfileEditVars

\* reader.onload up to its await: setProfilePreview(url) shows the preview
\* and #profileRemoveBtn, then uploadImageToS3 is called
ProfileReaderLoads ==
  /\ ProfileLive
  /\ profileEdit.readers > 0
  /\ profileEdit' = [profileEdit EXCEPT !.readers = @ - 1,
                                        !.removeBtnShown = TRUE,
                                        !.uploads = @ + 1]
  /\ UNCHANGED notProfileEditVars

\* uploadImageToS3 settles: the metadata is kept, or null after a failure
ProfileImageSettles ==
  /\ ProfileLive
  /\ profileEdit.uploads > 0
  /\ \E ok \in BOOLEAN :
       profileEdit' = [profileEdit EXCEPT !.uploads = @ - 1,
                                          !.profileImageMetadata = ok]
  /\ UNCHANGED notProfileEditVars

\* click on #profileRemoveBtn, which is shown while a picture is
\* previewed; setProfilePreview(null) hides it
RemoveProfileImage ==
  /\ ProfileLive
  /\ profileEdit.removeBtnShown
  /\ profileEdit' = [profileEdit EXCEPT !.profileImageMetadata = FALSE,
                                        !.removeImage = TRUE,
                                        !.removeBtnShown = FALSE]
  /\ UNCHANGED notProfileEditVars

\* blur of #nickname: checkNickname up to its await; the current nickname
\* needs no request
BlurNickname ==
  /\ ProfileLive
  /\ Len(profileEdit.checks) < MaxChecks
  /\ profileEdit.nickname # MyNickname => ProfileRoom
  /\ profileEdit' =
       IF profileEdit.nickname = MyNickname
         THEN [profileEdit EXCEPT !.nicknameChecked = TRUE,
                                  !.nicknameAvailable = TRUE]
       ELSE [Started(profileEdit) EXCEPT
               !.checks = Append(@, [kind |-> "nickname",
                                     value |-> profileEdit.nickname])]
  /\ UNCHANGED notProfileEditVars

\* blur of #currentPassword: checkCurrentPassword up to its await
BlurPassword ==
  /\ ProfileLive
  /\ Len(profileEdit.checks) < MaxChecks /\ ProfileRoom
  /\ profileEdit.currentPassword # ""
  /\ profileEdit' =
       [Started(profileEdit) EXCEPT
          !.checks = Append(@, [kind |-> "password",
                                value |-> profileEdit.currentPassword])]
  /\ UNCHANGED notProfileEditVars

\* the run of handleSubmit returns
EndRun(pe, run) == [pe EXCEPT !.runs = @ (-) SetToBag({run})]

\* the run of handleSubmit goes on as next
SetRun(pe, run, next) ==
  [pe EXCEPT !.runs = (@ (-) SetToBag({run})) (+) SetToBag({next})]

\* the finally of handleSubmit, after which the run returns
FinishRun(pe, run) == [EndRun(pe, run) EXCEPT !.isSubmitting = FALSE]

\* handleSubmit from "if (wantsPasswordChange) await changePassword" on
submitChange(pe, run) ==
  IF run.wantsPasswordChange
    THEN SetRun(pe, run, [run EXCEPT !.stage = "changing"])
  ELSE [FinishRun(pe, run) EXCEPT !.location = "leaving"]

\* handleSubmit from "if (Object.keys(profilePayload).length > 0)" on
submitUpdate(pe, run, profileImageId) ==
  IF run.nickname # MyNickname \/ profileImageId
    THEN SetRun(pe, run, [run EXCEPT !.stage = "updating"])
  ELSE submitChange(pe, run)

\* handleSubmit from "if (!isValid) return" on: isSubmitting is set, then
\* the picked image's metadata is saved or the removed picture deleted, as
\* state says now
submitSend(pe, run, isValid) ==
  LET valid == [run EXCEPT !.isValid = TRUE]
      busy == [SetRun(pe, run, valid) EXCEPT !.isSubmitting = TRUE]
  IN  IF ~isValid THEN EndRun(pe, run)
      ELSE IF pe.profileImageMetadata
        THEN SetRun(busy, valid, [valid EXCEPT !.stage = "saving"])
      ELSE IF pe.removeImage
        THEN SetRun(busy, valid, [valid EXCEPT !.stage = "deleting"])
      ELSE submitUpdate(busy, valid, FALSE)

\* the checks of the new password the run read: its format, its difference
\* from the current password, its confirmation
newPasswordValid(currentPassword, newPassword, newPasswordConfirm) ==
  /\ validatePassword(newPassword)
  /\ ~(currentPassword # "" /\ newPassword = currentPassword)
  /\ newPassword = newPasswordConfirm

\* handleSubmit from the validation of the new password on
submitNewPassword(pe, run, isValid) ==
  submitSend(pe, run,
             /\ isValid
             /\ run.wantsPasswordChange => run.newPasswordValid)

\* handleSubmit from wantsPasswordChange on: a missing current password is
\* an error, an unverified one is checked first
submitPassword(pe, run, isValid) ==
  IF ~run.wantsPasswordChange THEN submitNewPassword(pe, run, isValid)
  ELSE IF run.currentPassword = ""
    THEN submitNewPassword(pe, run, FALSE)
  ELSE IF ~pe.currentPasswordVerified
    THEN SetRun(pe, run, [run EXCEPT !.stage = "password",
                                     !.isValid = isValid])
  ELSE submitNewPassword(pe, run, isValid)

\* handleSubmit up to its first await: the inputs are read; a changed
\* nickname that is not flagged available is checked first
Submit_Profile ==
  /\ ProfileLive
  /\ ~profileEdit.isSubmitting
  /\ BagCardinality(profileEdit.runs) < MaxRuns /\ ProfileRoom
  /\ LET wants == \/ profileEdit.currentPassword # ""
                  \/ profileEdit.newPassword # ""
                  \/ profileEdit.newPasswordConfirm # ""
         run == [stage |-> "nickname",
                 nickname |-> profileEdit.nickname,
                 currentPassword |-> profileEdit.currentPassword,
                 wantsPasswordChange |-> wants,
                 newPasswordValid |->
                   newPasswordValid(profileEdit.currentPassword,
                                    profileEdit.newPassword,
                                    profileEdit.newPasswordConfirm),
                 isValid |-> TRUE]
         read == [Started(profileEdit) EXCEPT
                    !.runs = @ (+) SetToBag({run})]
     IN  profileEdit' =
           IF run.nickname # MyNickname /\ ~read.nicknameAvailable
             THEN read
           ELSE submitPassword(read, run, TRUE)
  /\ UNCHANGED notProfileEditVars

\* the flags after the request of a check settled
checkSettled(pe, c, ok, error) ==
  IF c.kind = "nickname"
    THEN [pe EXCEPT !.nicknameChecked = ~error,
                    !.nicknameAvailable = ok]
  ELSE [pe EXCEPT !.currentPasswordVerified = ok]

\* the answer to a check of value v, or its failure
CheckOk(kind, v, error) ==
  /\ ~error
  /\ IF kind = "nickname" THEN NicknameFree(v) ELSE PasswordRight(v)

\* the request of a blur handler's check settles (in any order): the flags
\* are assigned
CheckSettles ==
  /\ ProfileLive
  /\ \E k \in 1..Len(profileEdit.checks), error \in BOOLEAN :
       LET c == profileEdit.checks[k]
       IN  profileEdit' =
             checkSettled([profileEdit EXCEPT !.checks = RemoveAt(@, k)],
                          c, CheckOk(c.kind, c.value, error), error)
  /\ UNCHANGED notProfileEditVars

\* the check a run of handleSubmit awaits settles: the flags are assigned
\* and the run goes on
RunCheckSettles ==
  /\ ProfileLive
  /\ \E run \in BagToSet(profileEdit.runs), error \in BOOLEAN :
       LET c == IF run.stage = "nickname"
                THEN [kind |-> "nickname", value |-> run.nickname]
                ELSE [kind |-> "password", value |-> run.currentPassword]
           ok == CheckOk(c.kind, c.value, error)
           set == checkSettled(profileEdit, c, ok, error)
       IN  /\ run.stage \in {"nickname", "password"}
           /\ profileEdit' =
                IF run.stage = "nickname" THEN submitPassword(set, run, ok)
                ELSE submitNewPassword(set, run, run.isValid /\ ok)
  /\ UNCHANGED notProfileEditVars

\* saveImageMetadata settles: the imageId of the result, if any, joins the
\* payload, a rejection is thrown on to the catch and the finally;
\* deleteProfileImage settles: its rejection is ignored
RunImageSettles ==
  /\ ProfileLive
  /\ \E run \in BagToSet(profileEdit.runs) :
       \/ /\ run.stage = "saving"
          /\ \/ \E imageId \in BOOLEAN :
                  profileEdit' = submitUpdate(profileEdit, run, imageId)
             \/ profileEdit' = FinishRun(profileEdit, run)
       \/ /\ run.stage = "deleting"
          /\ profileEdit' = submitUpdate(profileEdit, run, FALSE)
  /\ UNCHANGED notProfileEditVars

\* updateProfile settles: changePassword follows when a password change is
\* wanted, otherwise the page starts to leave; a failure ends the run
UpdateSettles ==
  /\ ProfileLive
  /\ \E run \in BagToSet(profileEdit.runs) :
       /\ run.stage = "updating"
       /\ \/ profileEdit' = submitChange(profileEdit, run)
          \/ profileEdit' = FinishRun(profileEdit, run)
  /\ UNCHANGED notProfileEditVars

\* changePassword settles
ChangeSettles ==
  /\ ProfileLive
  /\ \E run \in BagToSet(profileEdit.runs) :
       /\ run.stage = "changing"
       /\ \/ profileEdit' = [FinishRun(profileEdit, run) EXCEPT
                               !.location = "leaving"]
          \/ profileEdit' = FinishRun(profileEdit, run)
  /\ UNCHANGED notProfileEditVars

\* the navigation to /profile commits and the page is unloaded: its
\* state, its inputs and its pending continuations are gone
ProfileUnloads ==
  /\ ProfileLive
  /\ profileEdit.location = "leaving"
  /\ profileEdit' = [IdleProfile EXCEPT !.location = "left"]
  /\ UNCHANGED notProfileEditVars

NextProfileEdit ==
  \/ TypeNickname \/ TypePassword \/ TypeNewPassword
  \/ TypeNewPasswordConfirm \/ PickProfileImage \/ ProfileReaderLoads
  \/ ProfileImageSettles
  \/ RemoveProfileImage \/ BlurNickname \/ BlurPassword
  \/ Submit_Profile \/ CheckSettles \/ RunCheckSettles \/ RunImageSettles
  \/ UpdateSettles \/ ChangeSettles \/ ProfileUnloads

----------------------------------------------------------------------------
\* Claim about the checks of the profile-edit form

\* C29: nicknameAvailable is true only while the input holds a value whose
\* check succeeds (the current nickname, or one the server reports free),
\* currentPasswordVerified only while the input holds the password the
\* server accepts, and updateProfile or changePassword is sent only with
\* such a value.
CexC29_FlagsMatchInput ==
  /\ profileEdit.nicknameAvailable =>
       \/ profileEdit.nickname = MyNickname
       \/ NicknameFree(profileEdit.nickname)
  /\ profileEdit.currentPasswordVerified =>
       PasswordRight(profileEdit.currentPassword)
  /\ \A run \in BagToSet(profileEdit.runs) :
       /\ run.stage = "updating" /\ run.nickname # MyNickname =>
            NicknameFree(run.nickname)
       /\ run.stage = "changing" => PasswordRight(run.currentPassword)

----------------------------------------------------------------------------
\* Write page, image modes (pages/write): the tabs 'manual' and 'ai',
\* handleTabChange, the uploads of either mode and handleAiGenerate.  The
\* user has a profile picture and the content field is not empty, so the
\* AI tab and the generate button can be used; the controls of the AI mode
\* are enabled in the page's markup.

MaxAiRuns == 2           \* calls of handleAiGenerate that pass its checks
MaxPicks == 2            \* files picked, in either mode

NoImage == 0             \* null

\* uploadedImages: the temp images in the array (by number); uploading:
\* the temp images whose upload promise is pending; awaitingLimit /
\* generating / counting: runs of handleAiGenerate at its three awaits;
\* bootCounting: the updateAiRemainingCount() of the page's start, not
\* awaited, is pending; referenceDisabled / generateDisabled /
\* regenerateDisabled: the disabled property of #ai-reference-input,
\* #ai-generate-btn and #ai-regenerate-btn
IdleAiWrite ==
  [imageMode |-> "manual", uploadedImages |-> {}, uploading |-> {},
   aiReferenceImage |-> NoImage, aiGeneratedImage |-> NoImage,
   isAiGenerating |-> FALSE, awaitingLimit |-> 0, generating |-> 0,
   counting |-> 0, referenceUploads |-> {}, tabModal |-> "none",
   bootCounting |-> TRUE, referenceDisabled |-> FALSE,
   generateDisabled |-> FALSE, regenerateDisabled |-> FALSE,
   picks |-> 0, runs |-> 0]

InitAiWrite == aiWrite = IdleAiWrite

\* the user can click: no modal is over the page
AiWriteFree == page = "write-ai" /\ aiWrite.tabModal = "none"

\* clearCurrentModeImages
clearCurrentModeImages(w) ==
  IF w.imageMode = "manual" THEN [w EXCEPT !.uploadedImages = {}]
  ELSE [w EXCEPT !.aiReferenceImage = NoImage,
                 !.aiGeneratedImage = NoImage]

\* switchTab
switchTab(w, newMode) == [w EXCEPT !.imageMode = newMode]

\* handleTabChange: a mode that holds images asks before it is left
handleTabChange(w, newMode) ==
  LET hasImages ==
        \/ w.imageMode = "manual" /\ w.uploadedImages # {}
        \/ /\ w.imageMode = "ai"
           /\ (w.aiReferenceImage # NoImage \/ w.aiGeneratedImage # NoImage)
  IN  IF newMode = w.imageMode THEN w
      ELSE IF hasImages THEN [w EXCEPT !.tabModal = newMode]
      ELSE switchTab(w, newMode)

TabClick ==
  /\ AiWriteFree
  /\ \E newMode \in {"manual", "ai"} :
       /\ newMode # aiWrite.imageMode
       /\ aiWrite' = handleTabChange(aiWrite, newMode)
  /\ UNCHANGED notAiWriteVars

\* the confirm callback of the tab modal
TabConfirm ==
  /\ page = "write-ai"
  /\ aiWrite.tabModal # "none"
  /\ aiWrite' = [switchTab(clearCurrentModeImages(aiWrite),
                           aiWrite.tabModal)
                   EXCEPT !.tabModal = "none"]
  /\ UNCHANGED notAiWriteVars

TabCancel ==
  /\ page = "write-ai"
  /\ aiWrite.tabModal # "none"
  /\ aiWrite' = [aiWrite EXCEPT !.tabModal = "none"]
  /\ UNCHANGED notAiWriteVars

\* addImages with one valid file, up to the awaits of its upload
PickManual ==
  /\ AiWriteFree
  /\ aiWrite.imageMode = "manual"
  /\ aiWrite.picks < MaxPicks
  /\ LET t == aiWrite.picks + 1
     IN  aiWrite' = [aiWrite EXCEPT !.picks = t,
                                    !.uploadedImages = @ \cup {t},
                                    !.uploading = @ \cup {t}]
  /\ UNCHANGED notAiWriteVars

\* the upload of a temp image settles: on success the temp image object is
\* updated, on failure it is spliced out of the array if it is there
ManualUploadSettles ==
  /\ page = "write-ai"
  /\ \E t \in aiWrite.uploading, ok \in BOOLEAN :
       aiWrite' = [aiWrite EXCEPT
                     !.uploading = @ \ {t},
                     !.uploadedImages = IF ok THEN @ ELSE @ \ {t}]
  /\ UNCHANGED notAiWriteVars

\* updateAiRemainingCount once getAiGenerationRemaining has resolved (it
\* does not reject): the two buttons and the reference input are disabled
\* when no generation is left and enabled otherwise
updateAiRemainingCount(w, isExhausted) ==
  [w EXCEPT !.generateDisabled = isExhausted,
            !.regenerateDisabled = isExhausted,
            !.referenceDisabled = isExhausted]

\* the updateAiRemainingCount() of the page's start settles
BootCountSettles ==
  /\ page = "write-ai"
  /\ aiWrite.bootCounting
  /\ \E isExhausted \in BOOLEAN :
       aiWrite' = [updateAiRemainingCount(aiWrite, isExhausted)
                     EXCEPT !.bootCounting = FALSE]
  /\ UNCHANGED notAiWriteVars

\* change event of #ai-reference-input, which is not disabled, with a valid
\* file: handleAiReferenceSelect up to its awaits;
\* showAiReferenceLoading(true) disables the input
PickReference ==
  /\ AiWriteFree
  /\ aiWrite.imageMode = "ai"
  /\ ~aiWrite.referenceDisabled
  /\ aiWrite.picks < MaxPicks
  /\ LET t == aiWrite.picks + 1
     IN  aiWrite' = [aiWrite EXCEPT !.picks = t,
                                    !.referenceUploads = @ \cup {t},
                                    !.referenceDisabled = TRUE]
  /\ UNCHANGED notAiWriteVars

\* the upload of the reference image settles: on success aiReferenceImage
\* is assigned; the finally block's showAiReferenceLoading(false) enables
\* the input
ReferenceUploadSettles ==
  /\ page = "write-ai"
  /\ \E t \in aiWrite.referenceUploads, ok \in BOOLEAN :
       aiWrite' = [aiWrite EXCEPT
                     !.referenceUploads = @ \ {t},
                     !.aiReferenceImage = IF ok THEN t ELSE @,
                     !.referenceDisabled = FALSE]
  /\ UNCHANGED notAiWriteVars

\* removeAiReferenceImage
RemoveReference ==
  /\ AiWriteFree
  /\ aiWrite.imageMode = "ai"
  /\ aiWrite.aiReferenceImage # NoImage
  /\ aiWrite' = [aiWrite EXCEPT !.aiReferenceImage = NoImage]
  /\ UNCHANGED notAiWriteVars

\* handleAiGenerate returns at once
AiGenerateBlocked(w) == w.isAiGenerating

\* a click on #ai-generate-btn or on #ai-regenerate-btn, whichever is not
\* disabled: handleAiGenerate up to "await checkAiGenerationLimit()"
AiGenerateClick ==
  /\ AiWriteFree
  /\ aiWrite.imageMode = "ai"
  /\ ~aiWrite.generateDisabled \/ ~aiWrite.regenerateDisabled
  /\ aiWrite.runs < MaxAiRuns
  /\ ~AiGenerateBlocked(aiWrite)
  /\ aiWrite' = [aiWrite EXCEPT !.runs = @ + 1, !.awaitingLimit = @ + 1]
  /\ UNCHANGED notAiWriteVars

\* the limit check resolves: with no generation left the run ends, else
\* isAiGenerating is set, showAiLoading(true) disables the generate button
\* and the generation starts
LimitCheckSettles ==
  /\ page = "write-ai"
  /\ aiWrite.awaitingLimit > 0
  /\ \E canGenerate \in BOOLEAN :
       aiWrite' =
         IF canGenerate
           THEN [aiWrite EXCEPT !.awaitingLimit = @ - 1,
                                !.isAiGenerating = TRUE,
                                !.generateDisabled = TRUE,
                                !.generating = @ + 1]
         ELSE [aiWrite EXCEPT !.awaitingLimit = @ - 1]
  /\ UNCHANGED notAiWriteVars

\* the generation settles: on success aiGeneratedImage is assigned and the
\* remaining count is awaited; on failure the finally block runs, whose
\* showAiLoading(false) enables the generate button
GenerationSettles ==
  /\ page = "write-ai"
  /\ aiWrite.generating > 0
  /\ \/ aiWrite' = [aiWrite EXCEPT !.generating = @ - 1,
                                   !.counting = @ + 1,
                                   !.aiGeneratedImage = aiWrite.runs + 10]
     \/ aiWrite' = [aiWrite EXCEPT !.generating = @ - 1,
                                   !.isAiGenerating = FALSE,
                                   !.generateDisabled = FALSE]
  /\ UNCHANGED notAiWriteVars

\* the updateAiRemainingCount a run awaits settles, then the finally block
\* runs
CountSettles ==
  /\ page = "write-ai"
  /\ aiWrite.counting > 0
  /\ \E isExhausted \in BOOLEAN :
       aiWrite' = [updateAiRemainingCount(aiWrite, isExhausted)
                     EXCEPT !.counting = @ - 1,
                            !.isAiGenerating = FALSE,
                            !.generateDisabled = FALSE]
  /\ UNCHANGED notAiWriteVars

NextAiWrite ==
  \/ TabClick \/ TabConfirm \/ TabCancel
  \/ PickManual \/ ManualUploadSettles
  \/ PickReference \/ ReferenceUploadSettles \/ RemoveReference
  \/ AiGenerateClick \/ LimitCheckSettles \/ GenerationSettles
  \/ CountSettles \/ BootCountSettles

----------------------------------------------------------------------------
\* Claims about the image modes

\* C26: at most one AI image generation is in flight at any time.
CexC26_OneGenerationInFlight == aiWrite.generating <= 1

\* C27: the inactive mode holds no image: in mode 'manual' there is no
\* reference image and no generated image, in mode 'ai' uploadedImages is
\* empty.
CexC27_InactiveModeEmpty ==
  /\ aiWrite.imageMode = "manual" =>
       /\ aiWrite.aiReferenceImage = NoImage
       /\ aiWrite.aiGeneratedImage = NoImage
  /\ aiWrite.imageMode = "ai" => aiWrite.uploadedImages = {}

----------------------------------------------------------------------------
\* The whole front end: one page controller is loaded at a time

InitClient ==
  /\ InitDetailLoad /\ InitClientCall /\ InitToasts /\ InitConfig
  /\ InitProfileEdit /\ InitAiWrite

InitService ==
  InitApi /\ InitAiRoute /\ InitImageProxy /\ InitAiFlow /\ InitClient

Init == page \in Pages /\ InitList /\ InitComments /\ InitWrite /\ InitModal
          /\ InitDraft /\ InitService

Next ==
  \/ NextList \/ NextComments \/ NextWrite \/ NextModal \/ NextDraft
  \/ NextApi \/ NextServer \/ NextAiFlow
  \/ NextDetailLoad \/ NextClientCall \/ NextToast \/ NextConfig
  \/ NextProfileEdit \/ NextAiWrite

Spec == Init /\ [][Next]_vars

\* a visit of the feed or of the profile (my-posts) page
InitListPage == Init /\ page \in ListPages

SpecList == InitListPage /\ [][NextList]_vars

\* a visit of the post-detail page
InitDetailPage == Init /\ page = "post-detail"

SpecComments == InitDetailPage /\ [][NextComments]_vars

\* a visit of the write page, the text fields still empty or filled in and
\* saved as a draft
InitWritePage ==
  /\ page = "write" /\ InitList /\ InitComments /\ InitWrite /\ InitModal
  /\ InitDraft \/ InitDraftTyped
  /\ InitService

SpecWrite == InitWritePage /\ [][NextWrite]_vars

\* the write page once the user has uploaded some images, up to the most
\* the page takes, each selected on its own; from there the user reorders,
\* removes and marks images
InitReorder ==
  /\ page = "write" /\ InitList /\ InitComments /\ InitModal /\ InitDraft
  /\ InitService
  /\ \E k \in 0..MAX_IMAGES_MANUAL :
       /\ uploadedImages = MarkAllUploaded(k)
       /\ previews = Rendered(uploadedImages)
       /\ primaryShown = PrimaryDrawn(uploadedImages, 0)
       /\ uploadStage = [f \in Files |-> IF f <= k THEN "done" ELSE "none"]
       /\ uploadBatch = [f \in Files |-> IF f <= k THEN f ELSE 0]
       /\ nextFile = k + 1
  /\ primaryImageIndex = 0
  /\ draggedIndex = NoIndex
  /\ isDragging = FALSE
  /\ pendingUploads = {}
  /\ submit = IdleSubmitState
  /\ postRequest = NoPostRequest
  /\ drops = 0
  /\ lastEvent = NoEvent

NextReorder ==
  RemoveClick \/ SetPrimaryClick \/ DragStart \/ Drop \/ DragEnd

SpecReorder == InitReorder /\ [][NextReorder]_vars

\* a first visit of the write page, followed for its text and its draft
InitDraftPage == Init /\ page = "write"

SpecDraft == InitDraftPage /\ [][NextDraft]_vars

\* a page whose code and user work the modal
InitModalPage == Init /\ page = "modal"

SpecModal == InitModalPage /\ [][NextModal]_vars

\* a program that calls the post API client
InitApiPage == Init /\ page = "post-api"

SpecPostApi == InitApiPage /\ [][NextApi]_vars

\* the Express server, a request at each of its routes
InitServer == Init /\ page = "server"

SpecServer == InitServer /\ [][NextServer]_vars

\* a page that runs the AI image flow
InitAiClient == Init /\ page = "ai-client"

SpecAiFlow == InitAiClient /\ [][NextAiFlow]_vars

\* the load of the post-detail page and its like and delete requests
InitPostLoad == Init /\ page = "post-load"

SpecPostLoad == InitPostLoad /\ [][NextDetailLoad]_vars

\* one call of a function of the post or image API client
InitApiClient == Init /\ page = "api-client"

SpecApiClient == InitApiClient /\ [][NextClientCall]_vars

\* a page that shows toasts; timers of the browser fire once they are due
\* and time goes on, so the timer steps are weakly fair
InitToastPage == Init /\ page = "toast"

SpecToastLive ==
  /\ InitToastPage /\ [][NextToast]_vars
  /\ WF_vars(FadeStarts) /\ WF_vars(ToastRemoved) /\ WF_vars(ToastTick)

\* a page whose modules ask for the client configuration
InitConfigPage == Init /\ page = "config"

SpecConfig == InitConfigPage /\ [][NextConfig]_vars

\* a visit of the profile-edit page
InitProfileEditPage == Init /\ page = "profile-edit"

SpecProfileEdit == InitProfileEditPage /\ [][NextProfileEdit]_vars

\* a visit of the write page by a user with a profile picture
InitAiWritePage == Init /\ page = "write-ai"

SpecAiWrite == InitAiWritePage /\ [][NextAiWrite]_vars

====
